---------------------------- MODULE Spec2Model ----------------------------
(***************************************************************************)
(* A model of the influxdb-tools scripts:                                  *)
(*   src/influx-backup.py               dump / restore over the HTTP API   *)
(*   src/line-protocol-to-clickhouse.py the ClickHouse loader              *)
(*                                                                         *)
(* Text is modelled as a sequence of tokens.  A token is either one of the *)
(* characters the scripts treat specially (space, comma, equals, slash,    *)
(* double quote, backslash, U+2571, newline) or an opaque chunk that holds *)
(* none of them, so str.replace on the special characters is a map over    *)
(* the tokens.                                                             *)
(***************************************************************************)
EXTENDS Integers, Sequences, FiniteSets, TLC

VARIABLES
    prog,                 \* the entry point that runs
    MEASUREMENTS,         \* --measurements, split on ',' (<<>>: not given)
    IGNORE_MEASUREMENTS,  \* --ignore-measurements, split on ',' ({}: not given)
    FROM_MEASUREMENT,     \* --from-measurement (None: not given)
    args,                 \* the other arguments of the ClickHouse loader
    tables,               \* the target ClickHouse database: its tables
    columns,              \* ClickHouse loader: the column schema it fetched
    catalog,              \* the source store: measurement names in catalog order
    disk,                 \* the backup directory: file name -> sequence of lines
    pc,                   \* position of the run
    exit,                 \* exit status of the process (NoExit while running)
    measurements,         \* the entity list chosen by the enumerator
    mi,                   \* index in measurements of the entity in the loop
    fpos,                 \* lines of the open file consumed by "for i in f"
    lines,                \* the batch accumulator
    line_count,           \* the loop's line counter
    written,              \* write calls acknowledged by the target store
    call,                 \* the write call in progress
    io,                   \* counters of the requests sent for enumeration
    msfields,             \* dump: measurement -> field schema
    pages,                \* dump: the pages read of the current measurement
    arg,                  \* pure-function specifications: the input
    res                   \* pure-function specifications: the result

vars == <<prog, MEASUREMENTS, IGNORE_MEASUREMENTS, FROM_MEASUREMENT, args, tables,
          catalog, disk, pc, exit, measurements, mi, fpos, lines, line_count,
          written, call, io, columns, msfields, pages, arg, res>>

cfgVars == <<prog, MEASUREMENTS, IGNORE_MEASUREMENTS, FROM_MEASUREMENT, args, tables,
             catalog>>

-----------------------------------------------------------------------------
(* Python values *)

\* None: a value different from every string.
None == <<"<None>">>

\* bool(x) of a str-or-None.
Truthy(x) == x # None /\ x # <<>>

NoExit == "running"

\* sys.exit(-1) is seen by the parent process as status 255.
EXIT_FATAL == "255"

\* An uncaught exception ends the interpreter with status 1.
EXIT_TRACEBACK == "1"

\* The script ran to its end, or sys.exit() without an argument.
EXIT_OK == "0"

RECURSIVE Replace(_, _, _)
\* str.replace(old, new) where old is one special character (token).
Replace(s, old, new) ==
    IF s = <<>> THEN <<>>
    ELSE (IF Head(s) = old THEN new ELSE <<Head(s)>>) \o Replace(Tail(s), old, new)

RECURSIVE Join(_, _)
\* sep.join(parts)
Join(sep, parts) ==
    IF parts = <<>> THEN <<>>
    ELSE IF Len(parts) = 1 THEN Head(parts)
    ELSE Head(parts) \o sep \o Join(sep, Tail(parts))

\* The tokens in code point order ('/' is U+002F, letters follow, U+2571 last).
CodePointOrder == <<" ", "\"", ",", "/", "=", "\\", "a", "b", "cpu", "disk", "mem", "U+2571">>

TokenRank(t) == CHOOSE i \in 1..Len(CodePointOrder) : CodePointOrder[i] = t

RECURSIVE StrLess(_, _)
\* a < b on str
StrLess(a, b) ==
    IF b = <<>> THEN FALSE
    ELSE IF a = <<>> THEN TRUE
    ELSE IF Head(a) = Head(b) THEN StrLess(Tail(a), Tail(b))
    ELSE TokenRank(Head(a)) < TokenRank(Head(b))

RECURSIVE Sorted(_)
\* list.sort() of a directory listing (a set of distinct names)
Sorted(S) ==
    IF S = {} THEN <<>>
    ELSE LET m == CHOOSE x \in S : \A y \in S \ {x} : StrLess(x, y)
         IN  <<m>> \o Sorted(S \ {m})

-----------------------------------------------------------------------------
(* Identifier codec *)

measurement2filename(m) == Replace(m, "/", <<"U+2571">>)

MutNoUnescape_filename2measurement(d) == d

filename2measurement(d) == Replace(d, "U+2571", <<"/">>)

identifier2lineprotocol(d) ==
    Replace(Replace(Replace(d, " ", <<"\\", " ">>), ",", <<"\\", ",">>), "=", <<"\\", "=">>)

-----------------------------------------------------------------------------
(* Entity filter *)

\* "if m not in ignore: new_list.append(m)"
RECURSIVE DropIgnored(_, _)
DropIgnored(ms, ignore) ==
    IF ms = <<>> THEN <<>>
    ELSE (IF Head(ms) \notin ignore THEN <<Head(ms)>> ELSE <<>>)
         \o DropIgnored(Tail(ms), ignore)

\* The scan "for m in measurements: if m == from: return measurements[i:]; i += 1"
\* started at index i (1-based); <<FALSE, _>> when the scan ends without a match.
RECURSIVE ScanFrom(_, _, _)
ScanFrom(ms, from, i) ==
    IF i > Len(ms) THEN <<FALSE, <<>>>>
    ELSE IF ms[i] = from THEN <<TRUE, SubSeq(ms, i, Len(ms))>>
    ELSE ScanFrom(ms, from, i + 1)

MutSkipCursor_FilterBody(ms, from, ignore) ==
    LET l1   == IF ignore # {} THEN DropIgnored(ms, ignore) ELSE ms
        scan == ScanFrom(l1, from, 1)
    IN  IF scan[1] THEN Tail(scan[2])
        ELSE IF Truthy(from) THEN <<>>
        ELSE l1

MutFullRun_FilterBody(ms, from, ignore) ==
    LET l1   == IF ignore # {} THEN DropIgnored(ms, ignore) ELSE ms
        scan == ScanFrom(l1, from, 1)
    IN  IF scan[1] THEN scan[2]
        ELSE l1

\* The body shared, line for line, by the two copies of filter_measurements.
FilterBody(ms, from, ignore) ==
    LET l1   == IF ignore # {} THEN DropIgnored(ms, ignore) ELSE ms
        scan == ScanFrom(l1, from, 1)
    IN  IF scan[1] THEN scan[2]
        ELSE IF Truthy(from) THEN <<>>
        ELSE l1

\* influx-backup.py: reads the globals FROM_MEASUREMENT and IGNORE_MEASUREMENTS.
filter_measurements(ms) == FilterBody(ms, FROM_MEASUREMENT, IGNORE_MEASUREMENTS)

\* line-protocol-to-clickhouse.py: the same, with the two as parameters.
ch_filter_measurements(ms, from_measurement, ignore_measurements) ==
    FilterBody(ms, from_measurement, ignore_measurements)

-----------------------------------------------------------------------------
(* Bounds and inputs *)

\* Longest backup file, in lines.
MaxLines == 7

\* WRITE_CHUNK_SIZE (5000 in the source) scaled down: the restore loop reads it
\* only in "len(lines) == WRITE_CHUNK_SIZE" and "line_count += WRITE_CHUNK_SIZE".
WRITE_CHUNK_SIZE == 3

\* DEFAULT_INSERT_SIZE (10**6 in the source) scaled down in the same way.
DEFAULT_INSERT_SIZE == 3

\* "retries = 10" of write_points.
MAX_RETRIES == 10

cpu == <<"cpu">>

dsk == <<"disk">>

mem == <<"mem">>

\* Names of the files a backup directory may hold.
FileNames == {cpu, dsk}

\* Line k of backup file f.
FileLine(f, k) == [f |-> f, k |-> k]

FileContent(f, n) == [k \in 1..n |-> FileLine(f, k)]

\* The backup directories: absent, or any set of files of 0..MaxLines lines.
Disks ==
    {[exists |-> FALSE, files |-> <<>>]} \cup
    {[exists |-> TRUE, files |-> [f \in S |-> FileContent(f, n[f])]] :
        S \in SUBSET FileNames, n \in [FileNames -> 0..MaxLines]}

ExplicitLists == {<<>>, <<dsk>>, <<dsk, cpu>>, <<mem>>}

IgnoreSets == {{}, {cpu}}

Cursors == {None, dsk, mem}

NoResponse == [kind |-> "none"]

NoCall == [active |-> FALSE, ctx |-> "-", retries |-> 0, posts |-> 0, sleeps |-> 0,
           last |-> NoResponse]

NoIo == [catalog |-> 0, listdir |-> 0, fieldkeys |-> 0, statements |-> 0,
         warnings |-> 0]

Idle == "-"

-----------------------------------------------------------------------------
(* influx-backup.py: restore *)

runVars == <<measurements, mi, fpos, lines, line_count, written, call, io>>

\* The values of --restore-precision the runs are made with (the default is ns).
Precisions == {"ns", "s"}

\* The state restore starts in, the arguments and the directory left open.
RestoreStart ==
    /\ prog = "restore"
    /\ args \in [restore_precision : Precisions]
    /\ tables = {}
    /\ catalog = <<>>
    /\ pc = "start"
    /\ exit = NoExit
    /\ measurements = <<>>
    /\ mi = 0
    /\ fpos = 0
    /\ lines = <<>>
    /\ line_count = 0
    /\ written = <<>>
    /\ call = NoCall
    /\ io = NoIo
    /\ columns = Idle
    /\ msfields = Idle
    /\ pages = <<>>
    /\ arg = Idle
    /\ res = Idle

InitRestore ==
    /\ MEASUREMENTS \in ExplicitLists
    /\ IGNORE_MEASUREMENTS \in IgnoreSets
    /\ FROM_MEASUREMENT \in Cursors
    /\ disk \in Disks
    /\ RestoreStart

\* The process ends with the given status.
Exit(status) ==
    /\ pc' = "exited"
    /\ exit' = status

\* The regular files of DIR that do not end in ".gz" (GZIP unset).
ListDir == DOMAIN disk.files

\* [filename2measurement(mm) for mm in measurements]
UnescapeAll(ms) == [i \in 1..Len(ms) |-> filename2measurement(ms[i])]

\* restore, lines 244-253: the explicit list, or the sorted and filtered listing.
RestoreChosen ==
    IF MEASUREMENTS # <<>> THEN MEASUREMENTS
    ELSE UnescapeAll(filter_measurements(Sorted(ListDir)))

\* restore, lines 240-261: the directory check and the choice of entities.
R_Enumerate ==
    /\ prog = "restore" /\ pc = "start"
    /\ IF ~disk.exists
       THEN /\ Exit(EXIT_FATAL)
            /\ UNCHANGED <<measurements, io>>
       ELSE LET chosen == RestoreChosen
            IN  /\ measurements' = chosen
                /\ io' = IF MEASUREMENTS # <<>> THEN io
                         ELSE [io EXCEPT !.listdir = @ + 1]
                /\ IF chosen = <<>>
                   THEN Exit(EXIT_FATAL)
                   ELSE pc' = "sanity" /\ UNCHANGED exit
    /\ UNCHANGED <<cfgVars, disk, mi, fpos, lines, line_count, written, call,
                   columns, msfields, pages, arg, res>>

\* open(f'{DIR}/{measurement2filename(m)}', 'r') finds the file.
FileOf(m) == measurement2filename(m)

HasFile(m) == FileOf(m) \in DOMAIN disk.files

\* The number of characters of the last word of a line, its timestamp: the lines
\* of cpu carry nanoseconds, the lines of the other files seconds.
TimestampLen(line) == IF line.f = cpu THEN 19 ELSE 10

\* restore, lines 271-276: "conditions".
PrecisionMismatch(ts, precision) ==
    \/ ts = 10 /\ precision # "s"
    \/ ts = 13 /\ precision # "ms"
    \/ ts = 16 /\ precision # "u"
    \/ ts = 19 /\ precision # "ns"

\* restore, lines 263-282: the first line of the first file is read and split;
\* a missing file (FileNotFoundError) or a file with no first line (readline gives
\* '', split gives [], IndexError on [-1]) is an uncaught exception.  Otherwise the
\* warning is printed when the length of the timestamp and the precision disagree.
R_Sanity ==
    /\ prog = "restore" /\ pc = "sanity"
    /\ IF ~HasFile(measurements[1]) \/ disk.files[FileOf(measurements[1])] = <<>>
       THEN Exit(EXIT_TRACEBACK) /\ UNCHANGED io
       ELSE LET ts == TimestampLen(disk.files[FileOf(measurements[1])][1])
            IN  /\ io' = IF PrecisionMismatch(ts, args.restore_precision)
                         THEN [io EXCEPT !.warnings = @ + 1]
                         ELSE io
                /\ pc' = "confirm"
                /\ UNCHANGED exit
    /\ UNCHANGED <<cfgVars, disk, measurements, mi, fpos, lines, line_count, written,
                   call, columns, msfields, pages, arg, res>>

\* restore, lines 284-285: --force, or the answer to the prompt.
R_Confirm ==
    /\ prog = "restore" /\ pc = "confirm"
    /\ \E yes \in BOOLEAN :
          IF yes THEN pc' = "open" /\ mi' = 1 /\ UNCHANGED exit
          ELSE Exit(EXIT_OK) /\ UNCHANGED mi
    /\ UNCHANGED <<cfgVars, disk, measurements, fpos, lines, line_count, written,
                   call, io, columns, msfields, pages, arg, res>>

\* restore, lines 288-298: the head of "for m in measurements".
R_Open ==
    /\ prog = "restore" /\ pc = "open"
    /\ IF ~HasFile(measurements[mi])
       THEN Exit(EXIT_TRACEBACK) /\ UNCHANGED <<fpos, lines, line_count>>
       ELSE /\ pc' = "read"
            /\ lines' = <<>>
            /\ line_count' = 0
            /\ fpos' = 0
            /\ UNCHANGED exit
    /\ UNCHANGED <<cfgVars, disk, measurements, mi, written, call, io,
                   columns, msfields, pages, arg, res>>

MutBackToFront_CurFile ==
    LET f == disk.files[FileOf(measurements[mi])]
    IN  [k \in 1..Len(f) |-> f[Len(f) + 1 - k]]

\* The file the loop reads.
CurFile == disk.files[FileOf(measurements[mi])]

\* write_points, lines 205-216: the state of a call before its first attempt.
NewCall(ctx) ==
    [active |-> TRUE, ctx |-> ctx, retries |-> MAX_RETRIES, posts |-> 0,
     sleeps |-> 0, last |-> NoResponse]

\* restore, lines 300-306, with len(lines) != WRITE_CHUNK_SIZE: the line is appended.
R_Append ==
    /\ prog = "restore" /\ pc = "read"
    /\ fpos < Len(CurFile)
    /\ Len(lines) # WRITE_CHUNK_SIZE
    /\ lines' = Append(lines, CurFile[fpos + 1])
    /\ fpos' = fpos + 1
    /\ UNCHANGED <<cfgVars, disk, pc, exit, measurements, mi, line_count, written,
                   call, io, columns, msfields, pages, arg, res>>

\* restore, lines 301-302: a full batch is handed to write_points.
R_Flush ==
    /\ prog = "restore" /\ pc = "read"
    /\ fpos < Len(CurFile)
    /\ Len(lines) = WRITE_CHUNK_SIZE
    /\ pc' = "write_points"
    /\ call' = NewCall("full")
    /\ UNCHANGED <<cfgVars, disk, exit, measurements, mi, fpos, lines, line_count,
                   written, io, columns, msfields, pages, arg, res>>

\* restore, lines 308-309: the trailing batch is handed to write_points.
R_Tail ==
    /\ prog = "restore" /\ pc = "read"
    /\ fpos = Len(CurFile)
    /\ lines # <<>>
    /\ pc' = "write_points"
    /\ call' = NewCall("tail")
    /\ UNCHANGED <<cfgVars, disk, exit, measurements, mi, fpos, lines, line_count,
                   written, io, columns, msfields, pages, arg, res>>

\* restore, lines 311-312 and the step of "for m in measurements"; after the last
\* entity restore returns and the script ends with status 0.
R_Close ==
    /\ prog = "restore"
    /\ \/ pc = "read" /\ fpos = Len(CurFile) /\ lines = <<>>
       \/ pc = "close"
    /\ IF mi < Len(measurements)
       THEN pc' = "open" /\ mi' = mi + 1 /\ UNCHANGED exit
       ELSE pc' = "done" /\ exit' = EXIT_OK /\ UNCHANGED mi
    /\ UNCHANGED <<cfgVars, disk, measurements, fpos, lines, line_count, written,
                   call, io, columns, msfields, pages, arg, res>>

\* The answers of the target store to one POST: an HTTP status, whether the text
\* holds 'points beyond retention policy', or an exception raised by requests.post.
Responses ==
    {[kind |-> "http", status |-> s, marker |-> b] : s \in {204, 500}, b \in BOOLEAN}
    \cup {[kind |-> "exception"]}

MutMarkerNeeds2xx_Accepted(r) ==
    r.kind = "http" /\ r.status = 204

\* write_points, lines 220-225: the attempt returns.
Accepted(r) ==
    r.kind = "http" /\ (r.status = 204 \/ r.marker)

MutNineRetries_RetriesLeft(c) == c.retries > 1

\* write_points, line 217: "while retries > 0".
RetriesLeft(c) == c.retries > 0

MutNoCount_AfterFailure(c, r) ==
    [c EXCEPT !.posts = @ + 1, !.sleeps = @ + 1, !.last = r]

\* write_points, lines 227-232: last_error is set, retries -= 1, time.sleep(1).
AfterFailure(c, r) ==
    [c EXCEPT !.posts = @ + 1, !.retries = @ - 1, !.sleeps = @ + 1,
              !.last = r]

\* write_points, lines 217-232: one turn of the retry loop, one POST.  On return
\* the caller goes on: after a full batch (lines 303-306) the accumulator is
\* cleared, the counter raised and the line in hand appended; after the
\* trailing batch the file is closed.
WP_Post ==
    /\ prog = "restore" /\ pc = "write_points"
    /\ RetriesLeft(call)
    /\ \E r \in Responses :
          IF Accepted(r)
          THEN /\ call' = [call EXCEPT !.active = FALSE, !.posts = @ + 1,
                                       !.last = r]
               /\ written' = Append(written, [m |-> measurements[mi], lines |-> lines])
               /\ IF call.ctx = "full"
                  THEN /\ lines' = <<CurFile[fpos + 1]>>
                       /\ line_count' = line_count + WRITE_CHUNK_SIZE
                       /\ fpos' = fpos + 1
                       /\ pc' = "read"
                  ELSE /\ pc' = "close"
                       /\ UNCHANGED <<lines, line_count, fpos>>
          ELSE /\ call' = AfterFailure(call, r)
               /\ UNCHANGED <<pc, written, lines, line_count, fpos>>
    /\ UNCHANGED <<cfgVars, disk, exit, measurements, mi, io, columns, msfields, pages,
                   arg, res>>

\* write_points, lines 234-235: the loop ran out of retries.
WP_GiveUp ==
    /\ prog = "restore" /\ pc = "write_points"
    /\ ~RetriesLeft(call)
    /\ Exit(EXIT_FATAL)
    /\ UNCHANGED <<cfgVars, disk, runVars, columns, msfields, pages, arg, res>>

NextRestore ==
    \/ R_Enumerate
    \/ R_Sanity
    \/ R_Confirm
    \/ R_Open
    \/ R_Append
    \/ R_Flush
    \/ R_Tail
    \/ R_Close
    \/ WP_Post
    \/ WP_GiveUp

SpecRestore == InitRestore /\ [][NextRestore]_vars

\* The write_points loop alone: every backup directory, entities discovered from it.
InitWritePoints ==
    /\ InitRestore
    /\ MEASUREMENTS = <<>>
    /\ IGNORE_MEASUREMENTS = {}
    /\ FROM_MEASUREMENT = None

\* Single-threaded, blocking: the interpreter always takes its next step.
FairSpecWritePoints == InitWritePoints /\ [][NextRestore]_vars /\ WF_vars(NextRestore)

\* An entity whose name holds the path separator.
SlashName == <<"a", "/", "b">>

\* restore over backup directories that hold the file of SlashName: entities
\* discovered from the directory, the exclusion set and the cursor naming it or not.
InitRestoreEscaped ==
    /\ MEASUREMENTS = <<>>
    /\ IGNORE_MEASUREMENTS \in {{}, {SlashName}, {cpu}}
    /\ FROM_MEASUREMENT \in {None, SlashName, cpu}
    /\ disk \in
          {[exists |-> TRUE, files |-> [f \in S |-> FileContent(f, n[f])]] :
              S \in {{measurement2filename(SlashName)}, {measurement2filename(SlashName), cpu}},
              n \in [{measurement2filename(SlashName), cpu} -> {0, 1, MaxLines}]}
    /\ RestoreStart

SpecRestoreEscaped == InitRestoreEscaped /\ [][NextRestore]_vars

-----------------------------------------------------------------------------
(* line-protocol-to-clickhouse.py: restore *)

\* The value of --insert-size: the int default, or the str argparse stores for an
\* option given on the command line (add_argument has no type=).
InsertSizes ==
    {[type |-> "int", v |-> DEFAULT_INSERT_SIZE]} \cup
    {[type |-> "str", v |-> n] : n \in {2, DEFAULT_INSERT_SIZE}}

\* Python's n == x for an int n: a str never equals an int.
PyEqInt(n, x) == x.type = "int" /\ x.v = n

\* The tables the target database may hold.
TableSets == {{cpu, dsk}, {dsk}}

InitClickhouse ==
    /\ prog = "clickhouse"
    /\ MEASUREMENTS \in ExplicitLists
    /\ IGNORE_MEASUREMENTS \in IgnoreSets
    /\ FROM_MEASUREMENT \in Cursors
    /\ args \in [insert_size : InsertSizes, mixed_files : BOOLEAN]
    /\ tables \in TableSets
    /\ catalog = <<>>
    /\ disk \in Disks
    /\ pc = "start"
    /\ exit = NoExit
    /\ measurements = <<>>
    /\ mi = 0
    /\ fpos = 0
    /\ lines = <<>>
    /\ line_count = 0
    /\ written = <<>>
    /\ call = NoCall
    /\ io = NoIo
    /\ columns = Idle
    /\ msfields = Idle
    /\ pages = <<>>
    /\ arg = Idle
    /\ res = Idle

\* The one statement of SETTINGS.
NSettings == 1

\* restore, lines 132-147: the explicit list, or the sorted and filtered listing.
ChChosen ==
    IF MEASUREMENTS # <<>> THEN MEASUREMENTS
    ELSE ch_filter_measurements(Sorted(ListDir), FROM_MEASUREMENT, IGNORE_MEASUREMENTS)

\* restore, lines 123-155: the SETTINGS statements, the directory check and the
\* choice of entities.
C_Enumerate ==
    /\ prog = "clickhouse" /\ pc = "start"
    /\ IF ~disk.exists
       THEN /\ Exit(EXIT_FATAL)
            /\ io' = [io EXCEPT !.statements = @ + NSettings]
            /\ UNCHANGED measurements
       ELSE LET chosen == ChChosen
            IN  /\ measurements' = chosen
                /\ io' = IF MEASUREMENTS # <<>>
                         THEN [io EXCEPT !.statements = @ + NSettings]
                         ELSE [io EXCEPT !.statements = @ + NSettings,
                                         !.listdir = @ + 1]
                /\ IF chosen = <<>>
                   THEN Exit(EXIT_FATAL)
                   ELSE pc' = "confirm" /\ UNCHANGED exit
    /\ UNCHANGED <<cfgVars, disk, mi, fpos, lines, line_count, written, call,
                   columns, msfields, pages, arg, res>>

\* restore, lines 157-158: --force, or the answer to the prompt.
C_Confirm ==
    /\ prog = "clickhouse" /\ pc = "confirm"
    /\ \E yes \in BOOLEAN :
          IF yes THEN pc' = "columns" /\ UNCHANGED exit
          ELSE Exit(EXIT_OK)
    /\ UNCHANGED <<cfgVars, disk, runVars, columns, msfields, pages, arg, res>>

\* restore, lines 161-168: the column schema of the target database is fetched.
C_Columns ==
    /\ prog = "clickhouse" /\ pc = "columns"
    /\ columns' = tables
    /\ io' = [io EXCEPT !.statements = @ + 1]
    /\ pc' = "open"
    /\ mi' = 1
    /\ UNCHANGED <<cfgVars, disk, exit, measurements, fpos, lines, line_count,
                   written, call, msfields, pages, arg, res>>

MutNeverSkip_SkipFile(m) == FALSE

\* restore, line 176: the file's table does not exist and files are not mixed.
SkipFile(m) == ~args.mixed_files /\ m \notin columns

\* open(f'{args.dir}/{m}', 'r') finds the file: the name is used as it is.
ChHasFile(m) == m \in DOMAIN disk.files

\* The step of "for m in measurements"; after the last entity restore returns and
\* the script ends with status 0.
ChNextEntity ==
    IF mi < Len(measurements)
    THEN pc' = "open" /\ mi' = mi + 1 /\ UNCHANGED exit
    ELSE pc' = "done" /\ exit' = EXIT_OK /\ UNCHANGED mi

\* restore, lines 176-178: "continue".
C_Skip ==
    /\ prog = "clickhouse" /\ pc = "open"
    /\ SkipFile(measurements[mi])
    /\ ChNextEntity
    /\ UNCHANGED <<cfgVars, disk, measurements, fpos, lines, line_count, written,
                   call, io, columns, msfields, pages, arg, res>>

\* restore, lines 180-185: the accumulator is reset and the file opened.
C_Open ==
    /\ prog = "clickhouse" /\ pc = "open"
    /\ ~SkipFile(measurements[mi])
    /\ IF ~ChHasFile(measurements[mi])
       THEN Exit(EXIT_TRACEBACK) /\ UNCHANGED <<fpos, lines, line_count>>
       ELSE /\ pc' = "read"
            /\ lines' = <<>>
            /\ line_count' = 0
            /\ fpos' = 0
            /\ UNCHANGED exit
    /\ UNCHANGED <<cfgVars, disk, measurements, mi, written, call, io, columns,
                   msfields, pages, arg, res>>

\* The file the loader's loop reads.
ChCurFile == disk.files[measurements[mi]]

\* restore, line 188: "len(lines) == args.insert_size".
BatchFull == PyEqInt(Len(lines), args.insert_size)

\* restore, lines 187-193, the batch not full: the line is appended.
C_Append ==
    /\ prog = "clickhouse" /\ pc = "read"
    /\ fpos < Len(ChCurFile)
    /\ ~BatchFull
    /\ lines' = Append(lines, ChCurFile[fpos + 1])
    /\ fpos' = fpos + 1
    /\ UNCHANGED <<cfgVars, disk, pc, exit, measurements, mi, line_count, written,
                   call, io, columns, msfields, pages, arg, res>>

\* restore, lines 188-189: a full batch is handed to write_records.
C_Flush ==
    /\ prog = "clickhouse" /\ pc = "read"
    /\ fpos < Len(ChCurFile)
    /\ BatchFull
    /\ pc' = "write_records"
    /\ call' = [NoCall EXCEPT !.active = TRUE, !.ctx = "full"]
    /\ UNCHANGED <<cfgVars, disk, exit, measurements, mi, fpos, lines, line_count,
                   written, io, columns, msfields, pages, arg, res>>

\* restore, lines 195-196: the trailing batch is handed to write_records.
C_Tail ==
    /\ prog = "clickhouse" /\ pc = "read"
    /\ fpos = Len(ChCurFile)
    /\ lines # <<>>
    /\ pc' = "write_records"
    /\ call' = [NoCall EXCEPT !.active = TRUE, !.ctx = "tail"]
    /\ UNCHANGED <<cfgVars, disk, exit, measurements, mi, fpos, lines, line_count,
                   written, io, columns, msfields, pages, arg, res>>

\* write_records as the loop sees it: the call returns, or it ends the process
\* (sys.exit(-1) at line 99, or the exception of the second execute at line 118).
\* On return the caller goes on as after write_points (lines 190-193, 198-199).
C_WriteRecords ==
    /\ prog = "clickhouse" /\ pc = "write_records"
    /\ \E outcome \in {"returns", "exits", "raises"} :
          IF outcome = "returns"
          THEN /\ call' = [call EXCEPT !.active = FALSE]
               /\ written' = Append(written, [m |-> measurements[mi], lines |-> lines])
               /\ UNCHANGED exit
               /\ IF call.ctx = "full"
                  THEN /\ lines' = <<ChCurFile[fpos + 1]>>
                       /\ line_count' = line_count + args.insert_size.v
                       /\ fpos' = fpos + 1
                       /\ pc' = "read"
                  ELSE /\ pc' = "close"
                       /\ UNCHANGED <<lines, line_count, fpos>>
          ELSE /\ Exit(IF outcome = "exits" THEN EXIT_FATAL ELSE EXIT_TRACEBACK)
               /\ UNCHANGED <<call, written, lines, line_count, fpos>>
    /\ UNCHANGED <<cfgVars, disk, measurements, mi, io, columns, msfields, pages,
                   arg, res>>

\* restore, lines 198-199 and the step of "for m in measurements".
C_Close ==
    /\ prog = "clickhouse"
    /\ \/ pc = "read" /\ fpos = Len(ChCurFile) /\ lines = <<>>
       \/ pc = "close"
    /\ ChNextEntity
    /\ UNCHANGED <<cfgVars, disk, measurements, fpos, lines, line_count, written,
                   call, io, columns, msfields, pages, arg, res>>

NextClickhouse ==
    \/ C_Enumerate
    \/ C_Confirm
    \/ C_Columns
    \/ C_Skip
    \/ C_Open
    \/ C_Append
    \/ C_Flush
    \/ C_Tail
    \/ C_WriteRecords
    \/ C_Close

SpecClickhouse == InitClickhouse /\ [][NextClickhouse]_vars

-----------------------------------------------------------------------------
(* line-protocol-to-clickhouse.py: write_records *)

(***************************************************************************)
(* Column names and column types are strings of characters, so that the    *)
(* substring tests of write_records ("k in row_columns", "'string' in v")  *)
(* are tests on the characters.  A dict is the sequence of its <<key,      *)
(* value>> pairs in insertion order.                                       *)
(***************************************************************************)

\* Python's "k in s" for two str.
IsSubstr(k, s) ==
    \E i \in 0..(Len(s) - Len(k)) : SubSeq(s, i + 1, i + Len(k)) = k

\* str.lower() on the letters the type names hold in upper case.
LowerChar(ch) ==
    CASE ch = "S" -> "s" [] ch = "I" -> "i" [] ch = "F" -> "f" [] ch = "D" -> "d"
      [] ch = "T" -> "t" [] OTHER -> ch

Lower(v) == [i \in 1..Len(v) |-> LowerChar(v[i])]

\* list(d.keys())
Keys(d) == [i \in 1..Len(d) |-> d[i][1]]

\* k in d
HasKey(d, k) == \E i \in 1..Len(d) : d[i][1] = k

\* d[k]
Get(d, k) == d[CHOOSE i \in 1..Len(d) : d[i][1] = k][2]

\* d[k] = v: an existing key keeps its place.
DictSet(d, k, v) ==
    IF HasKey(d, k) THEN [i \in 1..Len(d) |-> IF d[i][1] = k THEN <<k, v>> ELSE d[i]]
    ELSE Append(d, <<k, v>>)

RECURSIVE DictUpdate(_, _)
\* d.update(e)
DictUpdate(d, e) ==
    IF e = <<>> THEN d
    ELSE DictUpdate(DictSet(d, Head(e)[1], Head(e)[2]), Tail(e))

\* sanitize_column_name, lines 55-57.
sanitize_column_name(i) == Replace(i, "-", <<"_">>)

\* write_records, line 80: dict((sanitize_column_name(k), v) for k, v in row.items())
SanitizeRow(row) ==
    DictUpdate(<<>>, [i \in 1..Len(row) |-> <<sanitize_column_name(row[i][1]), row[i][2]>>])

\* The value of --time-precision: the int default 3, or the str argparse stores
\* for an option given on the command line (add_argument has no type=).
TimePrecisions == {[type |-> "int", v |-> 3], [type |-> "str", v |-> 3]}

\* write_records, line 76: the time of the row, scaled to the precision asked for.
RowTime(t, precision) == [time |-> t, scaled_to |-> precision.v]

\* write_records, lines 76-80: the row of a parsed line before the defaults.
RowOf(data, precision) ==
    SanitizeRow(DictUpdate(DictUpdate(<< <<<<"t", "i", "m", "e">>, RowTime(data.time, precision)>> >>,
                                      data.tags),
                           data.fields))

\* The values of a row: a str or a number, s its text.
ChStr(s) == [t |-> "str", s |-> s]

ChNum(s) == [t |-> "int", s |-> s]

\* write_records, lines 92-99: the default of a missing column of declared type v;
\* exit is TRUE where the code calls sys.exit(-1).
DefaultOf(v) ==
    LET lv == Lower(v)
    IN  IF IsSubstr(<<"s", "t", "r", "i", "n", "g">>, lv)
        THEN [exit |-> FALSE, value |-> ChStr("")]
        ELSE IF IsSubstr(<<"i", "n", "t">>, lv) \/ IsSubstr(<<"f", "l", "o", "a", "t">>, lv)
        THEN [exit |-> FALSE, value |-> ChNum("0")]
        ELSE [exit |-> TRUE, value |-> ChNum("0")]

\* write_records, line 89: "if k in row_columns", row_columns being the joined keys.
ColumnPresent(k, row_columns) == IsSubstr(k, row_columns)

RECURSIVE AddMissing(_, _, _, _)
\* write_records, lines 88-99: the loop over the table's columns from column i on.
AddMissing(row, row_columns, cols, i) ==
    IF i > Len(cols) THEN [exit |-> FALSE, row |-> row]
    ELSE LET k == cols[i][1]
             v == cols[i][2]
         IN  IF ColumnPresent(k, row_columns)
             THEN AddMissing(row, row_columns, cols, i + 1)
             ELSE LET d == DefaultOf(v)
                  IN  IF d.exit THEN [exit |-> TRUE, row |-> row]
                      ELSE AddMissing(DictSet(row, k, d.value), row_columns, cols, i + 1)

\* parse_line(i) of line_protocol_parser: the parsed record, or LineFormatError.
parse_line(i) ==
    IF i.wellformed
    THEN [err |-> FALSE, measurement |-> i.measurement, tags |-> i.tags,
          fields |-> i.fields, time |-> i.time]
    ELSE [err |-> TRUE]

\* write_records, lines 101-104: records[table_name].append(row)
RecordsAppend(records, table_name, row) ==
    IF HasKey(records, table_name)
    THEN DictSet(records, table_name, Append(Get(records, table_name), row))
    ELSE Append(records, <<table_name, <<row>>>>)

MutBreak_AfterLineFormatError(ls, i) == Len(ls) + 1

\* write_records, lines 67-69: the error is printed and the loop goes on with the
\* next line ("continue").
AfterLineFormatError(ls, i) == i + 1

RECURSIVE ParseLines(_, _, _, _, _)
\* write_records, lines 64-104: the parse loop from line i on.  exit is the status
\* the process ends with inside the loop: the TypeError of 10**args.time_precision
\* for a str (line 76), or sys.exit(-1) (line 99).
ParseLines(cols, ls, precision, i, records) ==
    IF i > Len(ls) THEN [exit |-> NoExit, records |-> records]
    ELSE LET data == parse_line(ls[i])
         IN  IF data.err
             THEN ParseLines(cols, ls, precision, AfterLineFormatError(ls, i), records)
             ELSE IF precision.type # "int"
             THEN [exit |-> EXIT_TRACEBACK, records |-> records]
             ELSE LET row         == RowOf(data, precision)
                      row_columns == Join(<<",">>, Keys(row))
                  IN  IF ~HasKey(cols, data.measurement)
                      THEN ParseLines(cols, ls, precision, i + 1, records)
                      ELSE LET r == AddMissing(row, row_columns,
                                               Get(cols, data.measurement), 1)
                           IN  IF r.exit
                               THEN [exit |-> EXIT_FATAL, records |-> records]
                               ELSE ParseLines(cols, ls, precision, i + 1,
                                       RecordsAppend(records, data.measurement, r.row))

\* clickhouse_driver builds each row of the insert as [row[name] for name in the
\* columns of the query]: a dict row that lacks one of them raises KeyError.
RaisesKeyError(cols, rows) ==
    \E j \in 1..Len(rows), c \in 1..Len(cols) : ~HasKey(rows[j], cols[c][1])

-----------------------------------------------------------------------------
(* influx-backup.py: format_rows *)

\* A JSON value of a row: t is its Python type, s the text of str(value).
Null == [t |-> "NoneType", s |-> <<>>]

JStr(s) == [t |-> "str", s |-> s]

JInt(s) == [t |-> "int", s |-> <<s>>]

JFloat(s) == [t |-> "float", s |-> <<s>>]

\* The int 0 that "timestamp" starts from.
Zero == JInt("0")

TimeCol == <<"time">>

\* format_rows, lines 105-109: the value of a field as it is written.
FieldValue(type, val) ==
    IF type = "string" THEN <<"\"">> \o Replace(val.s, "\"", <<"\\", "\"">>) \o <<"\"">>
    ELSE IF type = "integer" THEN val.s \o <<"i">>
    ELSE val.s

\* format_rows, lines 113-114: the value of a tag as it is written.
TagValue(val) == IF val.t = "str" THEN identifier2lineprotocol(val.s) ELSE val.s

MutAllTags_IsField(msf, col) == FALSE

\* format_rows, line 103: "col in msfields.keys()".
IsField(msf, col) == col \in DOMAIN msf

RECURSIVE ScanColumns(_, _, _, _, _)
\* format_rows, lines 95-116: the loop over the columns of row c from column i on;
\* acc holds timestamp, tags and fields.
ScanColumns(msf, cols, c, i, acc) ==
    IF i > Len(cols) THEN acc
    ELSE LET col == cols[i]
             val == c[i]
             nxt ==
                IF val = Null \/ val = JStr(<<>>) THEN acc
                ELSE IF col = TimeCol THEN [acc EXCEPT !.timestamp = val]
                ELSE IF IsField(msf, col)
                THEN [acc EXCEPT !.fields = Append(@,
                        identifier2lineprotocol(col) \o <<"=">> \o FieldValue(msf[col], val))]
                ELSE [acc EXCEPT !.tags = Append(@,
                        identifier2lineprotocol(col) \o <<"=">> \o TagValue(val))]
         IN  ScanColumns(msf, cols, c, i + 1, nxt)

\* format_rows, lines 92-126: one row; ok is FALSE where the code calls sys.exit(-1).
FormatRow(m, msf, cols, c) ==
    LET acc == ScanColumns(msf, cols, c, 1,
                           [timestamp |-> Zero, tags |-> <<>>, fields |-> <<>>])
    IN  IF acc.timestamp = Zero \/ Len(acc.fields) = 0
        THEN [ok |-> FALSE, line |-> <<>>]
        ELSE [ok |-> TRUE,
              line |-> IF acc.tags # <<>>
                       THEN identifier2lineprotocol(m) \o <<",">> \o Join(<<",">>, acc.tags)
                            \o <<" ">> \o Join(<<",">>, acc.fields) \o <<" ">>
                            \o acc.timestamp.s \o <<"\n">>
                       ELSE identifier2lineprotocol(m)
                            \o <<" ">> \o Join(<<",">>, acc.fields) \o <<" ">>
                            \o acc.timestamp.s \o <<"\n">>]

RECURSIVE FormatValues(_, _, _, _, _, _)
\* format_rows, line 91: "for c in b['values']" from row k on; rows is the list
\* built so far.  exit is TRUE when a row made the process exit.
FormatValues(m, msf, cols, values, k, rows) ==
    IF k > Len(values) THEN [exit |-> FALSE, rows |-> rows]
    ELSE LET r == FormatRow(m, msf, cols, values[k])
         IN  IF ~r.ok THEN [exit |-> TRUE, rows |-> rows]
             ELSE FormatValues(m, msf, cols, values, k + 1, Append(rows, r.line))

RECURSIVE FormatSeries(_, _, _, _, _)
\* format_rows, line 90: "for b in a['series']" from series j on.
FormatSeries(m, msf, series, j, rows) ==
    IF j > Len(series) THEN [exit |-> FALSE, rows |-> rows]
    ELSE LET r == FormatValues(m, msf, series[j].columns, series[j].values, 1, rows)
         IN  IF r.exit THEN r
             ELSE FormatSeries(m, msf, series, j + 1, r.rows)

RECURSIVE FormatResults(_, _, _, _, _)
\* format_rows, lines 86-88: "for a in data['results']" from result n on, with the
\* break at the first result that has no series.
FormatResults(m, msf, results, n, rows) ==
    IF n > Len(results) THEN [exit |-> FALSE, rows |-> rows]
    ELSE IF ~results[n].has_series THEN [exit |-> FALSE, rows |-> rows]
    ELSE LET r == FormatSeries(m, msf, results[n].series, 1, rows)
         IN  IF r.exit THEN r
             ELSE FormatResults(m, msf, results, n + 1, r.rows)

\* format_rows(m, msfields, data): the rows returned, or exit where it ends the
\* process (rows then holds what was built and is never returned).
format_rows(m, msf, data) == FormatResults(m, msf, data.results, 1, <<>>)

\* A page (chunk) of the answer to the one SELECT statement: one result, with at
\* most one series.
PageOf(cols, values, error) ==
    [results |-> << [has_series |-> TRUE,
                     series |-> << [columns |-> cols, values |-> values] >>,
                     has_error |-> error] >>]

\* A page whose result has no series.
EmptyPage(error) ==
    [results |-> << [has_series |-> FALSE, series |-> <<>>, has_error |-> error] >>]

-----------------------------------------------------------------------------
(* influx-backup.py: dump *)

\* Most pages the store streams for one measurement.
MaxPages == 2

host == <<"host">>

load == <<"load">>

cnt == <<"cnt">>

msg == <<"msg">>

\* The columns of the pages, in the order of the answer.
PageColumns == <<TimeCol, host, load, cnt, msg>>

\* The field keys of the measurements that have any.
StoreFields == (load :> "float") @@ (cnt :> "integer") @@ (msg :> "string")

\* The source databases: empty, or cpu, disk and mem, where mem has no field keys
\* (in the retention policy asked for).
Catalogs ==
    {[names |-> <<>>, fields |-> <<>>],
     [names |-> <<cpu, dsk, mem>>, fields |-> (cpu :> StoreFields) @@ (dsk :> StoreFields)]}

FullRow == <<JInt("100"), JStr(<<"a">>), JFloat("1.5"), Null, JStr(<<>>)>>

NextRow == <<JInt("200"), Null, JFloat("1.5"), JInt("7"), JStr(<<"hi">>)>>

ZeroTimeRow == <<Zero, JStr(<<"a">>), JFloat("1.5"), JInt("7"), JStr(<<>>)>>

NoTimeRow == <<Null, JStr(<<"a">>), JFloat("1.5"), JInt("7"), JStr(<<>>)>>

NoFieldRow == <<JInt("200"), JStr(<<"a">>), Null, Null, JStr(<<>>)>>

\* A page of two results: the first has neither series nor error, the second
\* carries the error.
ErrorInSecondResult ==
    [results |-> << [has_series |-> FALSE, series |-> <<>>, has_error |-> FALSE],
                    [has_series |-> FALSE, series |-> <<>>, has_error |-> TRUE] >>]

\* The pages the store may stream: rows, rows of which one has no time or no field,
\* no series at all, and an error with or without rows or in a later result.
DumpPages ==
    {PageOf(PageColumns, <<FullRow>>, FALSE),
     PageOf(PageColumns, <<FullRow, NextRow>>, FALSE),
     PageOf(PageColumns, <<FullRow, ZeroTimeRow>>, FALSE),
     PageOf(PageColumns, <<NoTimeRow, NextRow>>, FALSE),
     PageOf(PageColumns, <<NoFieldRow>>, FALSE),
     PageOf(PageColumns, <<NextRow>>, TRUE),
     EmptyPage(FALSE),
     EmptyPage(TRUE),
     ErrorInSecondResult}

InitDump ==
    /\ prog = "dump"
    /\ MEASUREMENTS \in ExplicitLists
    /\ IGNORE_MEASUREMENTS \in IgnoreSets
    /\ FROM_MEASUREMENT \in Cursors
    /\ args = Idle
    /\ tables = {}
    /\ catalog \in Catalogs
    /\ disk = [exists |-> FALSE, files |-> <<>>]
    /\ pc = "start"
    /\ exit = NoExit
    /\ measurements = <<>>
    /\ mi = 0
    /\ fpos = 0
    /\ lines = <<>>
    /\ line_count = 0
    /\ written = <<>>
    /\ call = NoCall
    /\ io = NoIo
    /\ columns = Idle
    /\ msfields = Idle
    /\ pages = <<>>
    /\ arg = Idle
    /\ res = Idle

MutFilterExplicit_DumpChosen ==
    filter_measurements(IF MEASUREMENTS # <<>> THEN MEASUREMENTS ELSE catalog.names)

\* dump, lines 133-138: the explicit list, or the filtered catalog ('series' is in
\* the answer when the database has a measurement).
DumpChosen ==
    IF MEASUREMENTS # <<>> THEN MEASUREMENTS
    ELSE IF catalog.names # <<>> THEN filter_measurements(catalog.names)
    ELSE <<>>

\* dump, lines 133-146: the choice of entities; query_influxdb ends the process
\* on a status other than 200.
D_Enumerate ==
    /\ prog = "dump" /\ pc = "start"
    /\ IF MEASUREMENTS # <<>>
       THEN /\ measurements' = DumpChosen
            /\ pc' = "fieldkeys"
            /\ UNCHANGED <<exit, io>>
       ELSE /\ io' = [io EXCEPT !.catalog = @ + 1]
            /\ \E ok \in BOOLEAN :
                  IF ~ok THEN Exit(EXIT_FATAL) /\ UNCHANGED measurements
                  ELSE /\ measurements' = DumpChosen
                       /\ IF DumpChosen = <<>>
                          THEN pc' = "done" /\ exit' = EXIT_OK
                          ELSE pc' = "fieldkeys" /\ UNCHANGED exit
    /\ UNCHANGED <<cfgVars, disk, mi, fpos, lines, line_count, written, call,
                   columns, msfields, pages, arg, res>>

\* The elements of a list.
Range(f) == {f[i] : i \in DOMAIN f}

MutOnePerEntity_FieldKeyRequests(ms) == Len(ms)

\* dump, lines 149-156: the SHOW FIELD KEYS queries of the measurements are joined
\* with ';' and sent as one request.
FieldKeyRequests(ms) == 1

\* dump, lines 148-170: one SHOW FIELD KEYS query for all the measurements; the
\* measurements with no series in the answer get no entry; DIR is created.
D_FieldKeys ==
    /\ prog = "dump" /\ pc = "fieldkeys"
    /\ io' = [io EXCEPT !.fieldkeys = @ + FieldKeyRequests(measurements)]
    /\ \E ok \in BOOLEAN :
          IF ~ok THEN Exit(EXIT_FATAL) /\ UNCHANGED <<msfields, disk, mi>>
          ELSE /\ msfields' = [m \in Range(measurements) \cap DOMAIN catalog.fields
                                  |-> catalog.fields[m]]
               /\ disk' = [disk EXCEPT !.exists = TRUE]
               /\ pc' = "loop"
               /\ mi' = 1
               /\ UNCHANGED exit
    /\ UNCHANGED <<cfgVars, measurements, fpos, lines, line_count, written, call,
                   columns, pages, arg, res>>

\* The step of "for m in measurements"; after the last one dump returns and the
\* script ends with status 0.
DumpNextEntity ==
    IF mi < Len(measurements)
    THEN pc' = "loop" /\ mi' = mi + 1 /\ UNCHANGED exit
    ELSE pc' = "done" /\ exit' = EXIT_OK /\ UNCHANGED mi

\* dump, lines 174-177: a measurement with no fields is passed over.
D_Ignore ==
    /\ prog = "dump" /\ pc = "loop"
    /\ measurements[mi] \notin DOMAIN msfields
    /\ DumpNextEntity
    /\ UNCHANGED <<cfgVars, disk, measurements, fpos, lines, line_count, written,
                   call, io, columns, msfields, pages, arg, res>>

\* The files of the directory with file f holding content.
WithFile(files, f, content) ==
    [x \in DOMAIN files \cup {f} |-> IF x = f THEN content ELSE files[x]]

\* dump, lines 179-191: the backup file is opened for writing and the SELECT sent;
\* chunked_read ends the process on a status other than 200.
D_Open ==
    /\ prog = "dump" /\ pc = "loop"
    /\ measurements[mi] \in DOMAIN msfields
    /\ disk' = [disk EXCEPT !.files = WithFile(@, FileOf(measurements[mi]), <<>>)]
    /\ line_count' = 0
    /\ pages' = <<>>
    /\ \E ok \in BOOLEAN :
          IF ok THEN pc' = "stream" /\ UNCHANGED exit
          ELSE Exit(EXIT_FATAL)
    /\ UNCHANGED <<cfgVars, measurements, mi, fpos, lines, written, call, io,
                   columns, msfields, arg, res>>

MutWritePartial_PageLines(r) == r.rows

\* dump, lines 193-194: the rows format_rows returned, which f.writelines writes;
\* none when format_rows ended the process.
PageLines(r) == IF r.exit THEN <<>> ELSE r.rows

MutOnePerPage_CountedLines(rows) == IF rows = <<>> THEN 0 ELSE 1

\* dump, line 195: "line_count += len(rows)".
CountedLines(rows) == Len(rows)

\* dump, lines 191-199: one page of the stream is read, formatted and written.
D_Page ==
    /\ prog = "dump" /\ pc = "stream"
    /\ Len(pages) < MaxPages
    /\ \E data \in DumpPages :
          LET m == measurements[mi]
              r == format_rows(m, msfields[m], data)
              f == FileOf(m)
          IN  /\ pages' = Append(pages, data)
              /\ disk' = [disk EXCEPT !.files[f] = @ \o PageLines(r)]
              /\ IF r.exit
                 THEN Exit(EXIT_FATAL) /\ UNCHANGED line_count
                 ELSE /\ line_count' = line_count + CountedLines(r.rows)
                      /\ IF Len(r.rows) = 0 /\ data.results[1].has_error
                         THEN Exit(EXIT_FATAL)
                         ELSE UNCHANGED <<pc, exit>>
    /\ UNCHANGED <<cfgVars, measurements, mi, fpos, lines, written, call, io,
                   columns, msfields, arg, res>>

\* dump, lines 201-202: the stream ended; the count is printed, the file closed.
D_EndStream ==
    /\ prog = "dump" /\ pc = "stream"
    /\ DumpNextEntity
    /\ pages' = <<>>
    /\ UNCHANGED <<cfgVars, disk, measurements, fpos, lines, line_count, written,
                   call, io, columns, msfields, arg, res>>

NextDump ==
    \/ D_Enumerate
    \/ D_FieldKeys
    \/ D_Ignore
    \/ D_Open
    \/ D_Page
    \/ D_EndStream

SpecDump == InitDump /\ [][NextDump]_vars

-----------------------------------------------------------------------------
(* The three programs *)

Init == InitDump \/ InitRestore \/ InitClickhouse

Next == NextDump \/ NextRestore \/ NextClickhouse

Spec == Init /\ [][Next]_vars

-----------------------------------------------------------------------------
(* Pure functions applied to bounded inputs *)

\* Longest entity list given to filter_measurements.
MaxList == 3

\* Longest name given to the file-name codec, in tokens.
MaxNameLen == 3

\* Most rows of a page given to format_rows.
MaxRows == 2

SeqsUpTo(S, n) == UNION {[1..k -> S] : k \in 0..n}

IdleRun ==
    /\ args = Idle
    /\ tables = {}
    /\ catalog = <<>>
    /\ disk = [exists |-> FALSE, files |-> <<>>]
    /\ exit = NoExit
    /\ measurements = <<>>
    /\ mi = 0
    /\ fpos = 0
    /\ lines = <<>>
    /\ line_count = 0
    /\ written = <<>>
    /\ call = NoCall
    /\ io = NoIo
    /\ columns = Idle
    /\ msfields = Idle
    /\ pages = <<>>
    /\ res = Idle

\* filter_measurements on every list of up to MaxList names, every exclusion set
\* and every cursor: not given, empty, a name that may be listed, one that is not.
InitFilter ==
    /\ prog = "filter"
    /\ MEASUREMENTS = <<>>
    /\ IGNORE_MEASUREMENTS \in SUBSET {cpu, dsk, mem}
    /\ FROM_MEASUREMENT \in {None, <<>>, cpu, dsk, mem, <<"a">>}
    /\ arg \in SeqsUpTo({cpu, dsk, mem}, MaxList)
    /\ pc = "call"
    /\ IdleRun

F_Call ==
    /\ prog = "filter" /\ pc = "call"
    /\ res' = [influx |-> filter_measurements(arg),
               ch |-> ch_filter_measurements(arg, FROM_MEASUREMENT, IGNORE_MEASUREMENTS)]
    /\ pc' = "ret"
    /\ UNCHANGED <<cfgVars, disk, exit, runVars, columns, msfields, pages, arg>>

SpecFilter == InitFilter /\ [][F_Call]_vars

\* The file-name codec on every name of up to MaxNameLen tokens.
InitCodec ==
    /\ prog = "codec"
    /\ MEASUREMENTS = <<>>
    /\ IGNORE_MEASUREMENTS = {}
    /\ FROM_MEASUREMENT = None
    /\ arg \in SeqsUpTo({"a", "b", "/", "U+2571"}, MaxNameLen)
    /\ pc = "call"
    /\ IdleRun

K_RoundTrip ==
    /\ prog = "codec" /\ pc = "call"
    /\ res' = [file |-> measurement2filename(arg),
               back |-> filename2measurement(measurement2filename(arg))]
    /\ pc' = "ret"
    /\ UNCHANGED <<cfgVars, disk, exit, runVars, columns, msfields, pages, arg>>

SpecCodec == InitCodec /\ [][K_RoundTrip]_vars

\* Every row over the values a column may take: absent, empty, zero, plain, and
\* strings that hold a space or a double quote.
PageRows ==
    {<<t, h, l, c, g>> :
        t \in {Null, Zero, JInt("100")},
        h \in {Null, JStr(<<>>), JStr(<<"a">>), JStr(<<"a", " ", "b">>)},
        l \in {Null, JFloat("1.5")},
        c \in {Null, JInt("7")},
        g \in {JStr(<<>>), JStr(<<"say", "\"", "hi", "\"">>)}}

\* The rows that may follow the first row of a page: a full one, one with time 0,
\* one with no value but its time.
TailRows ==
    {<<JInt("200"), JStr(<<"a">>), JFloat("1.5"), JInt("7"), JStr(<<>>)>>,
     <<Zero, JStr(<<"a">>), JFloat("1.5"), JInt("7"), JStr(<<>>)>>,
     <<JInt("200"), Null, Null, Null, JStr(<<>>)>>}

\* The row lists of the pages: any first row, then up to MaxRows - 1 more.
PageValues ==
    {<<>>} \cup {<<r>> \o t : r \in PageRows, t \in SeqsUpTo(TailRows, MaxRows - 1)}

\* The field schemas SHOW FIELD KEYS may give for an entity.
FieldSchemas ==
    { (load :> "float"),
      (load :> "float") @@ (cnt :> "integer") @@ (msg :> "string"),
      (cnt :> "integer") @@ (host :> "string") }

\* format_rows on every page of 0..MaxRows rows, and on the pages with no series.
InitFormat ==
    /\ prog = "format"
    /\ MEASUREMENTS = <<>>
    /\ IGNORE_MEASUREMENTS = {}
    /\ FROM_MEASUREMENT = None
    /\ \E m \in {cpu, <<"my", " ", "m">>}, msf \in FieldSchemas :
          \/ \E values \in PageValues :
                arg = [m |-> m, msfields |-> msf,
                       data |-> PageOf(PageColumns, values, FALSE)]
          \/ \E e \in BOOLEAN :
                arg = [m |-> m, msfields |-> msf, data |-> EmptyPage(e)]
    /\ pc = "call"
    /\ IdleRun

M_Format ==
    /\ prog = "format" /\ pc = "call"
    /\ res' = format_rows(arg.m, arg.msfields, arg.data)
    /\ pc' = "ret"
    /\ UNCHANGED <<cfgVars, disk, exit, runVars, columns, msfields, pages, arg>>

SpecFormat == InitFormat /\ [][M_Format]_vars

-----------------------------------------------------------------------------
(* write_records applied to bounded batches *)

\* Most lines of a batch given to write_records.
MaxBatch == 3

ColTime == <<"t", "i", "m", "e">>

ColId == <<"i", "d">>

ColUid == <<"u", "i", "d">>

ColV == <<"v">>

ColN == <<"n">>

ColDay == <<"d", "a", "y">>

ColDays == <<"d", "a", "y", "s">>

\* A field key as the backup holds it, and the column it is loaded into.
KeyAB == <<"a", "-", "b">>

ColAB == <<"a", "_", "b">>

TString == <<"S", "t", "r", "i", "n", "g">>

TInt == <<"I", "n", "t", "6", "4">>

TFloat == <<"F", "l", "o", "a", "t", "6", "4">>

TDate == <<"D", "a", "t", "e">>

TDateTime == <<"D", "a", "t", "e", "T", "i", "m", "e">>

\* A line of a backup file as line_protocol_parser reads it.
Line(m, tags, fields, t) ==
    [wellformed |-> TRUE, measurement |-> m, tags |-> tags, fields |-> fields, time |-> t]

\* A line that is not line protocol.
BadLine ==
    [wellformed |-> FALSE, measurement |-> <<>>, tags |-> <<>>, fields |-> <<>>, time |-> ""]

UidLine == Line(cpu, << <<ColUid, ChStr("u1")>> >>, << <<ColV, ChNum("1.5")>> >>, "t1")

IdLine == Line(cpu, << <<ColId, ChStr("i1")>> >>, << <<ColV, ChNum("2.5")>> >>, "t2")

BareLine == Line(cpu, <<>>, << <<ColV, ChNum("3.5")>> >>, "t3")

MemLine == Line(mem, <<>>, << <<ColV, ChNum("4.5")>> >>, "t4")

DashLine == Line(dsk, <<>>, << <<KeyAB, ChNum("7")>> >>, "t5")

\* A line of disk whose one field key has the name of the column day inside it.
DaysLine == Line(dsk, <<>>, << <<ColDays, ChNum("9")>> >>, "t6")

BatchLines == {UidLine, IdLine, BareLine, MemLine, DashLine, DaysLine, BadLine}

CpuColumns ==
    << <<ColTime, TDateTime>>, <<ColId, TString>>, <<ColUid, TString>>, <<ColV, TFloat>> >>

\* The column schemas fetched from system.columns: tables cpu and disk, no table
\* mem; in the second one disk has a column of a type with no default in the script.
ChSchemas ==
    { << <<cpu, CpuColumns>>,
         <<dsk, << <<ColTime, TDateTime>>, <<ColAB, TInt>>, <<ColN, TFloat>> >> >> >>,
      << <<cpu, CpuColumns>>,
         <<dsk, << <<ColTime, TDateTime>>, <<ColAB, TInt>>, <<ColDay, TDate>> >> >> >> }

InitWriteRecords ==
    /\ prog = "write_records"
    /\ MEASUREMENTS = <<>>
    /\ IGNORE_MEASUREMENTS = {}
    /\ FROM_MEASUREMENT = None
    /\ arg \in [columns : ChSchemas, lines : SeqsUpTo(BatchLines, MaxBatch),
                time_precision : TimePrecisions]
    /\ pc = "parse"
    /\ IdleRun

\* write_records, lines 62-104: the parse phase.
W_Parse ==
    /\ prog = "write_records" /\ pc = "parse"
    /\ LET r == ParseLines(arg.columns, arg.lines, arg.time_precision, 1, <<>>)
       IN  /\ res' = [records |-> r.records, n |-> 1, inserted |-> <<>>,
                      dropped |-> <<>>, executes |-> 0]
           /\ IF r.exit # NoExit THEN Exit(r.exit)
              ELSE /\ pc' = IF r.records = <<>> THEN "returned" ELSE "insert"
                   /\ UNCHANGED exit
    /\ UNCHANGED <<cfgVars, disk, runVars, columns, msfields, pages, arg>>

\* The step of "for table_name, rows in records.items()"; after the last table
\* write_records returns.
NextTable(r) ==
    /\ res' = [r EXCEPT !.n = @ + 1]
    /\ pc' = IF r.n = Len(r.records) THEN "returned" ELSE "insert"
    /\ UNCHANGED exit

\* write_records, lines 107-116: the insert of one table; a KeyError is printed and
\* the loop goes on, any other exception leads to the retry.
W_Execute ==
    /\ prog = "write_records" /\ pc = "insert"
    /\ LET table_name == res.records[res.n][1]
           rows       == res.records[res.n][2]
           r          == [res EXCEPT !.executes = @ + 1]
       IN  IF RaisesKeyError(Get(arg.columns, table_name), rows)
           THEN NextTable([r EXCEPT !.dropped = Append(@, <<table_name, rows>>)])
           ELSE \E ok \in BOOLEAN :
                   IF ok
                   THEN NextTable([r EXCEPT !.inserted = Append(@, <<table_name, rows>>)])
                   ELSE res' = r /\ pc' = "retry" /\ UNCHANGED exit
    /\ UNCHANGED <<cfgVars, disk, runVars, columns, msfields, pages, arg>>

\* write_records, lines 117-118: the one retry, outside any try.
W_Retry ==
    /\ prog = "write_records" /\ pc = "retry"
    /\ LET table_name == res.records[res.n][1]
           rows       == res.records[res.n][2]
           r          == [res EXCEPT !.executes = @ + 1]
       IN  \E ok \in BOOLEAN :
              IF ok
              THEN NextTable([r EXCEPT !.inserted = Append(@, <<table_name, rows>>)])
              ELSE res' = r /\ Exit(EXIT_TRACEBACK)
    /\ UNCHANGED <<cfgVars, disk, runVars, columns, msfields, pages, arg>>

NextWriteRecords ==
    \/ W_Parse
    \/ W_Execute
    \/ W_Retry

SpecWriteRecords == InitWriteRecords /\ [][NextWriteRecords]_vars

\* The loader: its restore loop, and write_records on bounded batches.
InitLoader == InitClickhouse \/ InitWriteRecords

NextLoader == NextClickhouse \/ NextWriteRecords

SpecLoader == InitLoader /\ [][NextLoader]_vars

-----------------------------------------------------------------------------
(* influx-cq.py: main *)

\* INTERVALS, line 13.
INTERVALS == <<"5m", "1h">>

\* METRICS, lines 15-31, in the order of the document: the type of each metric and
\* whether it has a group_by of its own.
METRICS ==
    << [metric |-> "node_cpu", type |-> "counter", group_by |-> "mode, cpu"],
       [metric |-> "node_disk_bytes_read", type |-> "counter", group_by |-> "device"],
       [metric |-> "node_disk_bytes_written", type |-> "counter", group_by |-> "device"],
       [metric |-> "node_disk_reads_completed", type |-> "counter", group_by |-> "device"],
       [metric |-> "node_disk_writes_completed", type |-> "counter", group_by |-> "device"],
       [metric |-> "node_filesystem_avail", type |-> "gauge",
        group_by |-> "mountpoint, fstype, device"],
       [metric |-> "node_filesystem_size", type |-> "gauge",
        group_by |-> "mountpoint, fstype, device"],
       [metric |-> "node_load1", type |-> "gauge", group_by |-> ""],
       [metric |-> "node_memory_Buffers", type |-> "gauge", group_by |-> ""],
       [metric |-> "node_memory_Cached", type |-> "gauge", group_by |-> ""],
       [metric |-> "node_memory_MemAvailable", type |-> "gauge", group_by |-> ""],
       [metric |-> "node_memory_MemFree", type |-> "gauge", group_by |-> ""],
       [metric |-> "node_memory_MemTotal", type |-> "gauge", group_by |-> ""],
       [metric |-> "node_network_receive_bytes", type |-> "counter", group_by |-> "device"],
       [metric |-> "node_network_transmit_bytes", type |-> "counter", group_by |-> "device"] >>

\* The attributes of the namespace parse_args returns: the dest of every option
\* of lines 37-44 ("--user" gives user, "--pass" gives pass).
NamespaceAttrs ==
    {"host", "port", "user", "pass", "prom_db", "trend_db", "drop_trend_db", "exit_on_cq"}

\* The attributes line 47 reads to build the client.
ClientAttrs == <<"host", "port", "username", "password", "prom_db">>

\* The name of a continuous query: "%(metric)s_%(interval)s".
CqName(metric, interval) == <<metric, "_", interval>>

\* main, lines 97-100: the aggregation of a metric type.
SelectOf(type) ==
    IF type = "gauge" THEN "MEAN(value)"
    ELSE IF type = "counter" THEN "MAX(value)"
    ELSE ""

\* main, lines 87-110: the continuous query declared for a metric and an interval.
CqOf(data, interval) ==
    [name |-> CqName(data.metric, interval),
     select |-> SelectOf(data.type),
     into |-> interval,
     own_group_by |-> data.group_by]

\* main, lines 50-54: the names of the continuous queries of the source database.
ExistingQueries(st) == st.cqs

\* An operation main asks of the store, as the log keeps it.
Op(kind, what) == [kind |-> kind, what |-> what]


\* The continuous queries the source database may hold before a run: one that
\* the run does not declare and two that it does.
OldCq == <<"old">>
OldQueries == {OldCq, CqName("node_cpu", "5m"), CqName("node_load1", "1h")}

Injective(s) == \A i, j \in DOMAIN s : s[i] = s[j] => i = j

\* The stores a run may find: the continuous queries of the source database in
\* the order SHOW CONTINUOUS QUERIES lists them, whether the trending database
\* exists, and its retention policies (none when it does not exist).
CqStores ==
    {st \in [cqs : {s \in SeqsUpTo(OldQueries, Cardinality(OldQueries)) : Injective(s)},
             trend_db : BOOLEAN,
             retentions : SUBSET {"autogen", "5m", "1h"}] :
        IF st.trend_db THEN "autogen" \in st.retentions ELSE st.retentions = {}}

\* main, lines 47-59: how the run starts. Line 47 reads args.username and
\* args.password, which the parser of lines 37-44 never sets; line 57 returns
\* when --exit-on-cq is given and the source database has continuous queries.
MutGoesOn_Prologue(a, st) == "go on"

Prologue(a, st) ==
    IF \E i \in DOMAIN ClientAttrs : ClientAttrs[i] \notin NamespaceAttrs
    THEN "AttributeError"
    ELSE IF a.exit_on_cq /\ ExistingQueries(st) # <<>> THEN "return"
    ELSE "go on"

\* main, lines 61-64: every continuous query of the source database is dropped.
DropQueries(st) == [i \in DOMAIN st.cqs |-> Op("drop_cq", st.cqs[i])]

\* main, lines 69-76: the trending database is dropped when --drop-trend-db is
\* given, and created when it is not (or no longer) there.
DropsTrendDb(a, st) == a.drop_trend_db
CreatesTrendDb(a, st) == DropsTrendDb(a, st) \/ ~st.trend_db

TrendDbOps(a, st) ==
    (IF DropsTrendDb(a, st) THEN <<Op("drop_db", "trend_db")>> ELSE <<>>)
    \o (IF CreatesTrendDb(a, st) THEN <<Op("create_db", "trend_db")>> ELSE <<>>)

\* main, line 80: the retention policies of the trending database, read once
\* before the loop over INTERVALS.
Retentions(a, st) ==
    IF CreatesTrendDb(a, st) THEN {"autogen"} ELSE st.retentions

\* main, lines 81-112, for one interval: the retention policy when it is not there,
\* then one continuous query per metric.
IntervalOps(a, st, interval) ==
    (IF interval \notin Retentions(a, st)
     THEN <<Op("create_rp", interval)>> ELSE <<>>)
    \o [m \in DOMAIN METRICS |-> Op("create_cq", CqOf(METRICS[m], interval))]

RECURSIVE AllIntervalOps(_, _, _)
AllIntervalOps(a, st, i) ==
    IF i > Len(INTERVALS) THEN <<>>
    ELSE IntervalOps(a, st, INTERVALS[i]) \o AllIntervalOps(a, st, i + 1)

\* What the store holds after the operations of a log of main, which asks for
\* every drop before the creations and for the database before its policies.
Asked(log, kind) == SelectSeq(log, LAMBDA op : op.kind = kind)

Apply(st, log) ==
    LET created == Asked(log, "create_cq")
        policies == Asked(log, "create_rp")
        fresh == Asked(log, "create_db") # <<>>
        gone == Asked(log, "drop_db") # <<>>
    IN  [cqs |-> SelectSeq(st.cqs, LAMBDA n : Op("drop_cq", n) \notin Range(log))
                 \o [i \in DOMAIN created |-> created[i].what.name],
         trend_db |-> fresh \/ (st.trend_db /\ ~gone),
         retentions |-> (IF fresh THEN {"autogen"}
                         ELSE IF gone THEN {} ELSE st.retentions)
                        \union {policies[i].what : i \in DOMAIN policies}]

\* main, lines 46-114: the operations a run asks of the store and how it ends.
main(a, st) ==
    LET start == Prologue(a, st)
        log == IF start = "go on"
               THEN DropQueries(st) \o TrendDbOps(a, st) \o AllIntervalOps(a, st, 1)
               ELSE <<>>
    IN  [log |-> log,
         store |-> Apply(st, log),
         exit |-> IF start = "AttributeError" THEN EXIT_TRACEBACK ELSE EXIT_OK]

InitCq ==
    /\ prog = "cq"
    /\ MEASUREMENTS = <<>>
    /\ IGNORE_MEASUREMENTS = {}
    /\ FROM_MEASUREMENT = None
    /\ arg \in [args : [exit_on_cq : BOOLEAN, drop_trend_db : BOOLEAN],
                store : CqStores]
    /\ pc = "main"
    /\ IdleRun

\* One run of influx-cq.py against a store that answers every request.
M_Main ==
    /\ prog = "cq" /\ pc = "main"
    /\ LET r == main(arg.args, arg.store)
       IN  /\ res' = [store |-> r.store, log |-> r.log]
           /\ Exit(r.exit)
    /\ UNCHANGED <<cfgVars, disk, runVars, columns, msfields, pages, arg>>

NextCq == M_Main

SpecCq == InitCq /\ [][NextCq]_vars

-----------------------------------------------------------------------------
(* Properties of restore and write_points *)

RECURSIVE Chunks(_, _)
\* s cut into consecutive pieces of b elements, the last one shorter when b does
\* not divide Len(s).
Chunks(s, b) ==
    IF s = <<>> THEN <<>>
    ELSE IF Len(s) <= b THEN <<s>>
    ELSE <<SubSeq(s, 1, b)>> \o Chunks(SubSeq(s, b + 1, Len(s)), b)

\* The write calls of the lines s of entity m, in batches of b.
Batches(m, s, b) ==
    LET c == Chunks(s, b) IN [i \in 1..Len(c) |-> [m |-> m, lines |-> c[i]]]

RECURSIVE BatchesOfFiles(_, _, _)
\* The write calls of the whole files of the first n entities of ms.
BatchesOfFiles(ms, n, b) ==
    IF n = 0 THEN <<>>
    ELSE BatchesOfFiles(ms, n - 1, b) \o Batches(ms[n], disk.files[FileOf(ms[n])], b)

\* The write calls acknowledged before the call in progress: the whole files of the
\* entities before the current one, and the current file up to the pending batch.
WrittenBefore(b) ==
    BatchesOfFiles(measurements, mi - 1, b)
    \o Batches(measurements[mi], SubSeq(CurFile, 1, line_count), b)

\* The batch size of the loop that runs.
LoopBatch == IF prog = "restore" THEN WRITE_CHUNK_SIZE ELSE args.insert_size.v

\* The file of the entity in the loop.
LoopFile == IF prog = "restore" THEN CurFile ELSE ChCurFile

\* The loop has read the whole file and flushed what it accumulated.
FileDone ==
    \/ pc = "close"
    \/ pc = "read" /\ fpos = Len(LoopFile) /\ lines = <<>>

\* The acknowledged write calls of entity m.
WritesOf(m) == SelectSeq(written, LAMBDA w : w.m = m)

\* C1: with every write succeeding, a file of N lines is restored in exactly
\* ceil(N/B) write calls (none when N = 0); every call but the last carries B lines,
\* the last one N mod B (B when B divides N), and no call carries more than B.
\* B is WRITE_CHUNK_SIZE in influx-backup.py and args.insert_size in the loader.
C1_ChunkBoundaries ==
    (prog \in {"restore", "clickhouse"} /\ pc \in {"read", "close"}) =>
        LET B == LoopBatch
            N == Len(LoopFile)
            w == WritesOf(measurements[mi])
        IN  /\ \A i \in 1..Len(written) : Len(written[i].lines) <= B
            /\ FileDone =>
                  /\ Len(w) = (N + B - 1) \div B
                  /\ \A i \in 1..(Len(w) - 1) : Len(w[i].lines) = B
                  /\ Len(w) > 0 =>
                        Len(w[Len(w)].lines) = (IF N % B = 0 THEN B ELSE N % B)
                  /\ w = Batches(measurements[mi], LoopFile, B)

\* C2: when every attempt of write_points for a batch fails, exactly 10 POSTs are
\* made for it (never fewer, never an 11th), then the process ends with a non-zero
\* status; the batches acknowledged before are the written ones, the failed batch
\* and everything after it are not, and nothing runs after the exit.
C2_RetryExhaustion ==
    /\ (prog = "restore" /\ pc = "write_points" /\ call.posts < 10) => ~ENABLED WP_GiveUp
    /\ (prog = "restore" /\ pc = "write_points" /\ call.posts = 10) =>
            /\ ~ENABLED WP_Post
            /\ ENABLED WP_GiveUp
    /\ (prog = "restore" /\ pc = "exited" /\ call.active) =>
            /\ call.posts = 10
            /\ ~Accepted(call.last)
            /\ exit = EXIT_FATAL /\ exit # EXIT_OK
            /\ written = WrittenBefore(WRITE_CHUNK_SIZE)
            /\ ~ENABLED NextRestore

\* C2 witness: the run ended in write_points on the second entity's second batch,
\* with batches written before it.
C2_Witness ==
    /\ prog = "restore" /\ pc = "exited" /\ call.active
    /\ call.last.kind = "exception"
    /\ mi = 2 /\ line_count = WRITE_CHUNK_SIZE
    /\ Len(written) >= 3

\* C3: an attempt whose response text holds the retention marker ends the call at
\* once, whatever the status: the batch counts as written, no retry is counted, no
\* sleep is taken, the process does not exit, and the loop goes on (to the next
\* line after a full batch, to the end of the file after the trailing one).
C3_RetentionIsSuccess ==
    [][(/\ prog = "restore" /\ pc = "write_points"
        /\ call'.posts = call.posts + 1
        /\ call'.last.kind = "http" /\ call'.last.marker)
       => /\ ~call'.active
          /\ call'.retries = call.retries
          /\ call'.sleeps = call.sleeps
          /\ exit' = NoExit
          /\ written' = Append(written, [m |-> measurements[mi], lines |-> lines])
          /\ \/ call.ctx = "full" /\ pc' = "read" /\ lines' = <<CurFile[fpos']>>
             \/ call.ctx = "tail" /\ pc' = "close"]_vars

\* C3 witness: a 500 response with the marker, on the first attempt for a full
\* batch; the loop reads on.
C3_Witness ==
    /\ prog = "restore" /\ pc = "read"
    /\ ~call.active /\ call.posts = 1 /\ call.sleeps = 0
    /\ call.last.kind = "http" /\ call.last.status = 500 /\ call.last.marker
    /\ Len(written) = 1 /\ Len(lines) = 1

\* The state of a call of write_points is consistent with its attempts so far.
CallInv ==
    (prog = "restore" /\ call # NoCall) =>
        /\ call.posts \in 0..MAX_RETRIES
        /\ call.retries \in 0..MAX_RETRIES
        /\ IF call.active
           THEN \* every attempt so far failed, each followed by one sleep
                /\ call.posts + call.retries = 10
                /\ call.sleeps = call.posts
                /\ call.posts > 0 => ~Accepted(call.last)
           ELSE \* returned: attempt number posts is the first that succeeded
                /\ call.posts \in 1..10
                /\ call.posts - 1 + call.retries = 10
                /\ call.sleeps = call.posts - 1
                /\ Accepted(call.last)

\* One step of a call: a POST that either ends the call or uses up one retry and
\* one second; an exception is such a failure.
CallStep ==
    (prog = "restore" /\ pc = "write_points" /\ call' # call) =>
        /\ call'.posts = call.posts + 1
        /\ \/ ~call'.active /\ pc' # "write_points" /\ Accepted(call'.last)
           \/ /\ call'.active /\ pc' = "write_points"
              /\ call'.retries = call.retries - 1
              /\ call'.sleeps = call.sleeps + 1
        /\ call'.last.kind = "exception" =>
              call'.active /\ call'.retries = call.retries - 1

\* C4: write_points always terminates, after 1 to 10 POSTs; it stops at the first
\* accepted attempt; an exception is one failed attempt of the same budget; one
\* 1-second sleep follows every failed attempt.
C4_WritePointsTerminates ==
    /\ []CallInv
    /\ [][CallStep]_vars
    /\ (pc = "write_points") ~> (pc # "write_points")

\* C4 witness: a call that returned on its 10th attempt, after exceptions.
C4_Witness ==
    /\ prog = "restore"
    /\ ~call.active /\ call.posts = 10 /\ call.sleeps = 9 /\ pc = "close"

-----------------------------------------------------------------------------
(* Properties of the entity filter and the enumerator *)

\* L without the elements of X, order kept.
Kept(L, X) == SelectSeq(L, LAMBDA m : m \notin X)

\* The index of the first occurrence of c in L.
FirstAt(L, c) == CHOOSE i \in 1..Len(L) : L[i] = c /\ \A j \in 1..(i - 1) : L[j] # c

\* A cursor is given: --from-measurement with a non-empty value.
Given(c) == c # None /\ c # <<>>

\* C5: filter_measurements returns L', the list without the excluded elements in
\* its order, cut to the suffix that starts at the first occurrence of the cursor
\* when the cursor occurs in L', and L' whole when there is no cursor.
C5_FilterResult ==
    (prog = "filter" /\ pc = "ret") =>
        LET Lp == Kept(arg, IGNORE_MEASUREMENTS)
            c  == FROM_MEASUREMENT
        IN  /\ c \in Range(Lp) =>
                  /\ res.influx = SubSeq(Lp, FirstAt(Lp, c), Len(Lp))
                  /\ res.ch = SubSeq(Lp, FirstAt(Lp, c), Len(Lp))
            /\ ~Given(c) => res.influx = Lp /\ res.ch = Lp

\* C5 witness: [cpu, disk, mem] with cursor disk gives [disk, mem].
C5_Witness ==
    /\ prog = "filter" /\ pc = "ret"
    /\ arg = <<cpu, dsk, mem>> /\ FROM_MEASUREMENT = dsk /\ IGNORE_MEASUREMENTS = {}
    /\ res.influx = <<dsk, mem>> /\ res.ch = <<dsk, mem>>

\* C6: a cursor that is given and equals no entity left after the exclusion (also
\* when it names an excluded one) gives the empty list.
C6_UnmatchedCursorEmpty ==
    (/\ prog = "filter" /\ pc = "ret"
     /\ Given(FROM_MEASUREMENT)
     /\ FROM_MEASUREMENT \notin Range(Kept(arg, IGNORE_MEASUREMENTS)))
    => res.influx = <<>> /\ res.ch = <<>>

\* C6 witness: the cursor names an entity of the list that the exclusion set drops.
C6_Witness ==
    /\ prog = "filter" /\ pc = "ret"
    /\ arg = <<cpu, dsk, mem>> /\ FROM_MEASUREMENT = dsk /\ IGNORE_MEASUREMENTS = {dsk}
    /\ res.influx = <<>> /\ res.ch = <<>>

\* The enumerator has run.
Enumerated == pc # "start" /\ (prog = "dump" \/ disk.exists)

\* With an explicit list the loop is over that list, whatever the exclusion set and
\* the cursor; no catalog query and no directory listing is made.
ExplicitListInv ==
    (prog \in {"dump", "restore", "clickhouse"} /\ MEASUREMENTS # <<>>) =>
        /\ io.catalog = 0 /\ io.listdir = 0
        /\ Enumerated => measurements = MEASUREMENTS
        /\ mi \in 0..Len(MEASUREMENTS)
        /\ pc = "done" => mi = Len(MEASUREMENTS)
        /\ \A i \in 1..Len(written) : \E k \in 1..mi : written[i].m = MEASUREMENTS[k]
        /\ prog = "dump" =>
              \A f \in DOMAIN disk.files : \E k \in 1..mi : f = FileOf(MEASUREMENTS[k])

\* C7: with an explicit entity list, dump and restore go through exactly that list
\* in its order; the exclusion set and the cursor change nothing, and entities are
\* chosen without any catalog query or directory listing.
C7_ExplicitListVerbatim ==
    /\ []ExplicitListInv
    /\ [][MEASUREMENTS # <<>> => (mi' = mi \/ mi' = mi + 1)]_vars

\* C7 witness: restore of the list [disk, cpu] ran to its end although the
\* exclusion set names cpu and the cursor names mem.
C7_Witness ==
    /\ prog = "restore" /\ pc = "done"
    /\ MEASUREMENTS = <<dsk, cpu>>
    /\ IGNORE_MEASUREMENTS = {cpu} /\ FROM_MEASUREMENT = mem
    /\ \E i \in 1..Len(written) : written[i].m = cpu

-----------------------------------------------------------------------------
(* Properties of the file-name codec *)

\* C8 as stated: the round trip gives the name back for every name.
C8_RoundTripAllNames ==
    (prog = "codec" /\ pc = "ret") => res.back = arg

\* C8 amended: the round trip gives the name back for every name that does not
\* hold U+2571, among them the names that hold '/'.
C8_RoundTripWithoutU2571 ==
    (prog = "codec" /\ pc = "ret" /\ "U+2571" \notin Range(arg)) => res.back = arg

\* C8 witness: a/b is stored as a, U+2571, b and read back as a/b.
C8_Witness ==
    /\ prog = "codec" /\ pc = "ret"
    /\ arg = <<"a", "/", "b">>
    /\ res.file = <<"a", "U+2571", "b">>
    /\ res.back = <<"a", "/", "b">>

-----------------------------------------------------------------------------
(* Properties of format_rows and dump *)

\* A value that is neither null nor the empty string.
Present(v) == v # Null /\ v # JStr(<<>>)

\* The indices, in order, of the columns of row c that are fields / tags: present,
\* not the time, and in / not in the field schema.
FieldIdx(msf, cols, c) ==
    SelectSeq([i \in 1..Len(cols) |-> i],
              LAMBDA i : cols[i] # TimeCol /\ Present(c[i]) /\ cols[i] \in DOMAIN msf)

TagIdx(msf, cols, c) ==
    SelectSeq([i \in 1..Len(cols) |-> i],
              LAMBDA i : cols[i] # TimeCol /\ Present(c[i]) /\ cols[i] \notin DOMAIN msf)

\* The time of row c: the value of the last present "time" column, else 0.
TimeOf(cols, c) ==
    LET at == {i \in 1..Len(cols) : cols[i] = TimeCol /\ Present(c[i])}
    IN  IF at = {} THEN Zero ELSE c[CHOOSE i \in at : \A j \in at : j <= i]

\* A row that has a non-zero time and at least one field.
GoodRow(msf, cols, c) == TimeOf(cols, c) # Zero /\ FieldIdx(msf, cols, c) # <<>>

\* name=value of a field: strings in double quotes (inner quotes escaped),
\* integers with the suffix i, the other types bare.
FieldText(msf, col, v) ==
    identifier2lineprotocol(col) \o <<"=">> \o
    CASE msf[col] = "string"  -> <<"\"">> \o Replace(v.s, "\"", <<"\\", "\"">>) \o <<"\"">>
      [] msf[col] = "integer" -> v.s \o <<"i">>
      [] OTHER                -> v.s

\* name=value of a tag: strings escaped for the wire, the other types bare.
TagText(col, v) ==
    identifier2lineprotocol(col) \o <<"=">> \o
    (IF v.t = "str" THEN identifier2lineprotocol(v.s) ELSE v.s)

\* The line of a good row: entity[,tag=val,...] field=val[,field=val...] time\n
LineOf(m, msf, cols, c) ==
    LET ti == TagIdx(msf, cols, c)
        fi == FieldIdx(msf, cols, c)
        tp == [k \in 1..Len(ti) |-> <<",">> \o TagText(cols[ti[k]], c[ti[k]])]
        fp == [k \in 1..Len(fi) |->
                  (IF k = 1 THEN <<" ">> ELSE <<",">>) \o FieldText(msf, cols[fi[k]], c[fi[k]])]
    IN  identifier2lineprotocol(m) \o Join(<<>>, tp) \o Join(<<>>, fp)
        \o <<" ">> \o TimeOf(cols, c).s \o <<"\n">>

\* The rows of a page, and their columns.
RowsOf(data) ==
    IF data.results[1].has_series THEN data.results[1].series[1].values ELSE <<>>

ColsOf(data) == data.results[1].series[1].columns

AllGood(msf, data) ==
    \A k \in 1..Len(RowsOf(data)) : GoodRow(msf, ColsOf(data), RowsOf(data)[k])

\* C9: for a page whose rows all have a non-zero time and at least one field,
\* format_rows returns one line per row, in row order, of the form
\* entity[,tag=val,...] field=val[,field=val...] time\n: a present column other
\* than time is a field exactly when the field schema names it (string quoted,
\* integer with i, else bare) and a tag otherwise; null and empty values are
\* dropped; without tags the tag part is omitted.
C9_FormatRows ==
    (prog = "format" /\ pc = "ret" /\ AllGood(arg.msfields, arg.data)) =>
        /\ ~res.exit
        /\ Len(res.rows) = Len(RowsOf(arg.data))
        /\ \A k \in 1..Len(res.rows) :
              res.rows[k] = LineOf(arg.m, arg.msfields, ColsOf(arg.data), RowsOf(arg.data)[k])

\* C9 witness: entity cpu, tag host=a, float field load=1.5, time 100 gives the
\* line cpu,host=a load=1.5 100\n.
C9_Witness ==
    /\ prog = "format" /\ pc = "ret"
    /\ arg.m = cpu /\ arg.msfields = (load :> "float")
    /\ RowsOf(arg.data) = << <<JInt("100"), JStr(<<"a">>), JFloat("1.5"), Null, JStr(<<>>)>> >>
    /\ ~res.exit
    /\ res.rows = << <<"cpu", ",", "host", "=", "a", " ", "load", "=", "1.5", " ",
                       "100", "\n">> >>

RECURSIVE LinesOfPages(_, _, _, _)
\* The lines of the first n pages of ps.
LinesOfPages(m, msf, ps, n) ==
    IF n = 0 THEN <<>>
    ELSE LinesOfPages(m, msf, ps, n - 1)
         \o [k \in 1..Len(RowsOf(ps[n])) |->
                LineOf(m, msf, ColsOf(ps[n]), RowsOf(ps[n])[k])]

\* C10: a row with no time (or time 0) or with no field ends the dump with a
\* non-zero status as soon as its page is read: the file holds the lines of the
\* pages before and none of that page, no later entity has a file, and nothing
\* more runs (no retry, no later page).
C10_BadRowIsFatal ==
    (prog = "dump" /\ pages # <<>>) =>
        LET m   == measurements[mi]
            msf == msfields[m]
            n   == Len(pages)
        IN  /\ \A k \in 1..(n - 1) : AllGood(msf, pages[k])
            /\ ~AllGood(msf, pages[n]) =>
                  /\ pc = "exited"
                  /\ exit = EXIT_FATAL /\ exit # EXIT_OK
                  /\ disk.files[FileOf(m)] = LinesOfPages(m, msf, pages, n - 1)
                  /\ \A j \in (mi + 1)..Len(measurements) :
                        FileOf(measurements[j]) \notin DOMAIN disk.files
                  /\ ~ENABLED NextDump

\* C10 witness: the second page of the first of two entities holds a good row and
\* then a row with time 0; the run ended with the first page's line in the file.
C10_Witness ==
    /\ prog = "dump" /\ pc = "exited"
    /\ Len(measurements) = 2 /\ mi = 1
    /\ Len(pages) = 2
    /\ pages[2] = PageOf(PageColumns, <<FullRow, ZeroTimeRow>>, FALSE)
    /\ Len(disk.files[FileOf(measurements[mi])]) = 1

-----------------------------------------------------------------------------
(* Properties of dump: errors in the pages *)

\* Some result of the page carries an error field.
PageHasError(data) == \E n \in DOMAIN data.results : data.results[n].has_error

\* C11: whenever a page read by dump carries an error field, the run has ended
\* with a non-zero status on that page: the page is the last one read, also when
\* it carries data rows together with the error.
C11_ErrorPageAborts ==
    prog = "dump" =>
        \A k \in 1..Len(pages) :
            PageHasError(pages[k]) =>
                /\ k = Len(pages)
                /\ pc = "exited"
                /\ exit # NoExit /\ exit # EXIT_OK

-----------------------------------------------------------------------------
(* Properties of write_records *)

\* The lines of the batch that parse and whose table exists, for table t, in order.
LinesOfTable(t) ==
    SelectSeq(arg.lines, LAMBDA i : i.wellformed /\ i.measurement = t)

\* The keys of the row of a line after sanitizing, defaults not yet added.
KeysOfLine(i) ==
    {sanitize_column_name(k) :
        k \in {ColTime} \cup {i.tags[x][1] : x \in DOMAIN i.tags}
                        \cup {i.fields[x][1] : x \in DOMAIN i.fields}}

\* The default the loader documents for a declared type.
IsStringLike(v) == v = TString

IsNumberLike(v) == v \in {TInt, TFloat}

\* C12: every row write_records hands to the insert has, for every column of its
\* table that is not a key of the line's row, "" when the column is string-like
\* and 0 when it is int- or float-like.
C12_SchemaDefaultFill ==
    (prog = "write_records" /\ pc \in {"insert", "retry", "returned"}) =>
        \A e \in DOMAIN res.records :
            LET t    == res.records[e][1]
                rows == res.records[e][2]
                cols == Get(arg.columns, t)
            IN  \A j \in DOMAIN rows, c \in DOMAIN cols :
                    LET k == cols[c][1]
                        v == cols[c][2]
                    IN  k \notin KeysOfLine(LinesOfTable(t)[j]) =>
                            /\ IsStringLike(v) => HasKey(rows[j], k) /\ Get(rows[j], k) = ChStr("")
                            /\ IsNumberLike(v) => HasKey(rows[j], k) /\ Get(rows[j], k) = ChNum("0")

-----------------------------------------------------------------------------
(* Properties of the restore loops: order *)

RECURSIVE ConcatLines(_)
\* The lines of the write calls ws, one after the other.
ConcatLines(ws) ==
    IF ws = <<>> THEN <<>> ELSE Head(ws).lines \o ConcatLines(Tail(ws))

\* The place of entity m in the enumerator's list.
PlaceOf(m) == CHOOSE j \in 1..Len(measurements) : measurements[j] = m

\* The backup file of the j-th entity, as the directory holds it.
BackupOf(j) ==
    IF prog = "restore" THEN disk.files[FileOf(measurements[j])]
    ELSE disk.files[measurements[j]]

\* The loader passed over the j-th entity (no table of that name, files not mixed).
PassedOver(j) == prog = "clickhouse" /\ SkipFile(measurements[j])

\* C13: the write calls come in the enumerator's order of the entities, all the
\* calls of an entity before the first call of the next; the lines of the calls of
\* an entity, one after the other, are the lines of its file in their order, each
\* once: the whole file for an entity the loop has left, the lines read so far
\* less the pending batch for the entity in the loop.
C13_RestoreOrder ==
    (prog \in {"restore", "clickhouse"} /\ mi >= 1) =>
        /\ \A a, b \in 1..Len(written) :
              a < b => PlaceOf(written[a].m) <= PlaceOf(written[b].m)
        /\ \A a \in 1..Len(written) : PlaceOf(written[a].m) <= mi
        /\ \A j \in 1..(mi - 1) :
              ConcatLines(WritesOf(measurements[j])) =
                  (IF PassedOver(j) THEN <<>> ELSE BackupOf(j))
        /\ pc \in {"read", "write_points", "write_records"} =>
              ConcatLines(WritesOf(measurements[mi])) \o lines =
                  SubSeq(BackupOf(mi), 1, fpos)
        /\ pc \in {"close", "done"} =>
              ConcatLines(WritesOf(measurements[mi])) =
                  (IF PassedOver(mi) THEN <<>> ELSE BackupOf(mi))

\* C13 witness: a restore of two files ended; the first file went out in two
\* batches, then the second one in two.
C13_Witness ==
    /\ prog = "restore" /\ pc = "done"
    /\ Len(measurements) = 2
    /\ Len(written) = 4
    /\ written[2].m = measurements[1] /\ written[3].m = measurements[2]
    /\ Len(written[2].lines) = 1

\* C14: write_records never goes on past a failed insert: every table of the batch
\* the loop over the records has left was inserted with all its rows (at the first
\* attempt or at the retry), so a call that returns has inserted every record;
\* otherwise the process has ended.
C14_NoSilentDrop ==
    (prog = "write_records" /\ pc \in {"insert", "retry", "returned"}) =>
        /\ res.dropped = <<>>
        /\ res.inserted = SubSeq(res.records, 1, res.n - 1)
        /\ pc = "returned" => res.inserted = res.records

\* The tables of the entries of a dict of records.
TablesOf(recs) == {recs[e][1] : e \in DOMAIN recs}

\* The rows recorded for table t, none when it has no entry.
RowsFor(recs, t) == IF HasKey(recs, t) THEN Get(recs, t) ELSE <<>>

\* Row r holds every key of the row built from line i, with its value.
HoldsLine(r, i) ==
    LET built == RowOf(parse_line(i), arg.time_precision)
    IN  \A x \in DOMAIN built : HasKey(r, built[x][1]) /\ Get(r, built[x][1]) = built[x][2]

\* write_records ended the process in its parse phase.
ParseAborted == pc = "exited" /\ res.executes = 0

\* C15, in write_records: no record, and so no insert, is ever made for a table
\* that is not in the schema; once the lines are parsed, every table of the schema
\* has the rows of all its lines of the batch, in their order, and a call that
\* returns has handed every one of them to an insert; the process never ends in
\* the parse phase over lines of missing tables alone (an end there needs a line
\* that parses and, with the default time precision, whose table exists).
C15_InWriteRecords ==
    (prog = "write_records" /\ pc # "parse") =>
        /\ \A t \in TablesOf(res.records) \cup TablesOf(res.inserted) \cup TablesOf(res.dropped) :
              HasKey(arg.columns, t)
        /\ pc \in {"insert", "retry", "returned"} =>
              \A t \in TablesOf(arg.columns) :
                  /\ Len(RowsFor(res.records, t)) = Len(LinesOfTable(t))
                  /\ \A j \in 1..Len(LinesOfTable(t)) :
                        HoldsLine(RowsFor(res.records, t)[j], LinesOfTable(t)[j])
        /\ pc = "returned" =>
              /\ res.executes >= Len(res.records)
              /\ \A e \in DOMAIN res.records :
                    \/ \E x \in DOMAIN res.inserted : res.inserted[x] = res.records[e]
                    \/ \E x \in DOMAIN res.dropped : res.dropped[x] = res.records[e]
        /\ ParseAborted =>
              \E x \in DOMAIN arg.lines :
                  /\ arg.lines[x].wellformed
                  /\ \/ arg.time_precision.type # "int"
                     \/ HasKey(arg.columns, arg.lines[x].measurement)

\* C15, in restore without --mixed-files: a file whose table does not exist is
\* passed over in one step: nothing is read or written, the process does not end
\* with a failure, and the loop is at the next file (or the run is done).
C15_FileSkipStep ==
    (/\ prog = "clickhouse" /\ pc = "open"
     /\ ~args.mixed_files /\ measurements[mi] \notin columns) =>
        /\ written' = written
        /\ lines' = lines /\ fpos' = fpos
        /\ IF mi < Len(measurements)
           THEN pc' = "open" /\ mi' = mi + 1 /\ exit' = NoExit
           ELSE pc' = "done" /\ exit' = EXIT_OK

Parseable == SelectSeq(arg.lines, LAMBDA i : i.wellformed)

\* C16: a line that is not line protocol is skipped and changes nothing else: the
\* call does with the batch what it does with the batch less those lines (the same
\* records, the same end of the parse phase), every table has the rows of its
\* lines in their order, a call that returns has handed them all to an insert, and
\* a batch of nothing but such lines returns with no insert.
C16_BadLineSkipped ==
    (prog = "write_records" /\ pc # "parse") =>
        LET clean == ParseLines(arg.columns, Parseable, arg.time_precision, 1, <<>>)
        IN  /\ res.records = clean.records
            /\ ParseAborted <=> clean.exit # NoExit
            /\ ParseAborted => exit = clean.exit
            /\ Parseable = <<>> => pc = "returned" /\ exit = NoExit /\ res.executes = 0
            /\ pc \in {"insert", "retry", "returned"} =>
                  \A e \in DOMAIN res.records :
                      LET t  == res.records[e][1]
                          ls == SelectSeq(Parseable, LAMBDA i : i.measurement = t)
                      IN  /\ Len(res.records[e][2]) = Len(ls)
                          /\ \A j \in 1..Len(ls) : HoldsLine(res.records[e][2][j], ls[j])
            /\ pc = "returned" =>
                  /\ Len(res.inserted) + Len(res.dropped) = Len(res.records)
                  /\ \A e \in DOMAIN res.records :
                        \E y \in DOMAIN (res.inserted \o res.dropped) :
                            (res.inserted \o res.dropped)[y] = res.records[e]

\* C16 witness: a batch of a good line, a bad line and a good line returned with
\* both good lines inserted, in their order.
C16_Witness ==
    /\ prog = "write_records" /\ pc = "returned"
    /\ arg.lines = <<IdLine, BadLine, BareLine>>
    /\ Len(res.inserted) = 1
    /\ Len(res.inserted[1][2]) = 2
    /\ HoldsLine(res.inserted[1][2][1], IdLine)
    /\ HoldsLine(res.inserted[1][2][2], BareLine)

-----------------------------------------------------------------------------
(* Properties of the precondition checks *)

\* C17: when enumeration and filtering leave no entity, dump, restore and the
\* loader end with a failure status, and no field-schema query was sent, no backup
\* file created and nothing written to the target store.
C17_NothingLeftIsFatal ==
    (prog \in {"dump", "restore", "clickhouse"} /\ pc # "start" /\ measurements = <<>>) =>
        /\ pc = "exited"
        /\ exit = EXIT_FATAL
        /\ io.fieldkeys = 0
        /\ prog = "dump" => DOMAIN disk.files = {}
        /\ written = <<>>

\* C18: when the backup directory does not exist, restore and the loader end with
\* a failure status, and no statement, query or write was sent to the target
\* store and no file opened.
C18_MissingDirIsFatalFirst ==
    (prog \in {"restore", "clickhouse"} /\ ~disk.exists /\ pc # "start") =>
        /\ pc = "exited"
        /\ exit = EXIT_FATAL
        /\ io = NoIo
        /\ written = <<>>
        /\ measurements = <<>> /\ mi = 0 /\ fpos = 0

\* The run ended inside the sanity check of restore.
EndedInSanity == pc = "exited" /\ mi = 0 /\ exit = EXIT_TRACEBACK

\* C19: whatever the first backup file holds (nothing at all included), the
\* precision check of restore does not end the run and does not change the batches
\* written; it has warned, once, exactly when the timestamp of the first line has
\* 10, 13, 16 or 19 characters and the precision is not s, ms, u or ns respectively.
C19_SanityCheckNonFatal ==
    (/\ prog = "restore" /\ pc \notin {"start", "sanity"}
     /\ measurements # <<>> /\ HasFile(measurements[1])) =>
        LET first == disk.files[FileOf(measurements[1])]
            p     == args.restore_precision
            ts    == TimestampLen(first[1])
        IN  /\ ~EndedInSanity
            /\ io.warnings =
                  (IF /\ first # <<>>
                      /\ \/ ts = 10 /\ p # "s"
                         \/ ts = 13 /\ p # "ms"
                         \/ ts = 16 /\ p # "u"
                         \/ ts = 19 /\ p # "ns"
                   THEN 1 ELSE 0)
            /\ pc = "done" =>
                  written = BatchesOfFiles(measurements, Len(measurements), WRITE_CHUNK_SIZE)

-----------------------------------------------------------------------------
(* Properties of the enumerator of restore: escaped file names *)

\* The entities the backup directory holds: its file names, unescaped.
EntitiesOnDisk == {filename2measurement(f) : f \in DOMAIN disk.files}

\* C20: in restore with discovery from the directory, the exclusion set and the
\* cursor are matched against entity names (the file names unescaped): no entity
\* the exclusion set names is restored, and a cursor that names an entity of the
\* directory that is not excluded is where the restore starts.
C20_FilterOnEntityNames ==
    (prog = "restore" /\ MEASUREMENTS = <<>> /\ disk.exists /\ pc # "start") =>
        /\ \A j \in 1..Len(measurements) : measurements[j] \notin IGNORE_MEASUREMENTS
        /\ (/\ Truthy(FROM_MEASUREMENT)
            /\ FROM_MEASUREMENT \in EntitiesOnDisk \ IGNORE_MEASUREMENTS) =>
               /\ measurements # <<>>
               /\ measurements[1] = FROM_MEASUREMENT


-----------------------------------------------------------------------------
(* Properties of influx-cq.py *)

CqRunOver == prog = "cq" /\ pc = "exited"

DeclaredQueries ==
    {CqName(METRICS[m].metric, INTERVALS[i]) : m \in DOMAIN METRICS, i \in DOMAIN INTERVALS}

\* Every drop of a continuous query comes before the first creation of one.
DropsBeforeCreates(log) ==
    \A i, j \in DOMAIN log :
        (log[i].kind = "drop_cq" /\ log[j].kind = "create_cq") => i < j

\* C22: a run not given --exit-on-cq, against a store that answers every
\* request, completes; after it the source database holds exactly one
\* continuous query per pair of METRICS x INTERVALS and no other, whatever it
\* held before; every query it held is dropped before the first new one is
\* created; and a second run leaves the same set.
C22_CreateReplace ==
    (CqRunOver /\ ~arg.args.exit_on_cq)
        => /\ exit = EXIT_OK
           /\ Range(res.store.cqs) = DeclaredQueries
           /\ Len(res.store.cqs) = Len(METRICS) * Len(INTERVALS)
           /\ \A i \in DOMAIN arg.store.cqs :
                  Op("drop_cq", arg.store.cqs[i]) \in Range(res.log)
           /\ DropsBeforeCreates(res.log)
           /\ Range(main(arg.args, res.store).store.cqs) = DeclaredQueries


-----------------------------------------------------------------------------
(* Properties of the schema mappings *)

\* dump, the ClickHouse restore, and write_records on its own.
InitSchemas == InitDump \/ InitClickhouse \/ InitWriteRecords

NextSchemas == NextDump \/ NextClickhouse \/ NextWriteRecords

SpecSchemas == InitSchemas /\ [][NextSchemas]_vars

\* The SELECT of an entity has been sent, or a page of it read.
DumpReadsData == prog = "dump" /\ pc = "stream"

\* The ClickHouse restore is at a file: opening it, reading it or writing a batch.
ChAtFiles == prog = "clickhouse" /\ pc \in {"open", "read", "write_records", "close"}

\* C23: the schema mappings are fetched at most once in a run and never change
\* afterwards.  dump sends one field-keys request, for all entities, before the
\* first data query, and every page of every entity is formatted with the mapping
\* it gave; the ClickHouse restore fetches the columns once, before the first
\* file is opened, and no step of write_records changes the columns it is given.
C23_SchemaStep ==
    /\ prog = "dump" =>
          /\ io'.fieldkeys <= 1
          /\ io'.fieldkeys # io.fieldkeys =>
                pc = "fieldkeys" /\ mi = 0 /\ DOMAIN disk.files = {}
          /\ pc # "fieldkeys" => msfields' = msfields
          /\ DumpReadsData' => io'.fieldkeys = 1
          /\ (pc = "stream" /\ pages' # pages /\ pages' # <<>> /\ pc' = "stream") =>
                disk'.files[FileOf(measurements[mi])] =
                    disk.files[FileOf(measurements[mi])]
                    \o format_rows(measurements[mi], msfields[measurements[mi]],
                                   pages'[Len(pages')]).rows
    /\ prog = "clickhouse" =>
          /\ pc # "columns" => columns' = columns
          /\ pc = "columns" => mi = 0 /\ written = <<>> /\ fpos = 0
          /\ ChAtFiles => pc' # "columns"
          /\ io'.statements # io.statements => pc \in {"start", "columns"}
          /\ ChAtFiles' => columns' = tables
    /\ prog = "write_records" => arg'.columns = arg.columns

C23_SchemaFetchedOnce == [][C23_SchemaStep]_vars

\* dump is at the second page of its second entity, after the one request.
C23_Witness ==
    /\ prog = "dump" /\ pc = "stream" /\ mi = 2 /\ Len(pages) = 2
    /\ io.fieldkeys = 1
    /\ disk.files[FileOf(measurements[mi])] # <<>>


-----------------------------------------------------------------------------
(* Properties of write_records: columns with no default *)

\* The columns of the table of line i that the row of the line lacks and whose
\* declared type has no default in the script.
NoDefaultColumns(i) ==
    LET cols == Get(arg.columns, i.measurement)
    IN  {c \in DOMAIN cols : /\ cols[c][1] \notin KeysOfLine(i)
                             /\ ~IsStringLike(cols[c][2])
                             /\ ~IsNumberLike(cols[c][2])}

\* The batch holds a record of an existing table that lacks such a column.
LacksNoDefaultColumn ==
    \E x \in DOMAIN arg.lines :
        /\ arg.lines[x].wellformed
        /\ HasKey(arg.columns, arg.lines[x].measurement)
        /\ NoDefaultColumns(arg.lines[x]) # {}

\* C24: when a record of an existing table lacks a column whose declared type is
\* neither string-like nor int- or float-like, write_records ends the process
\* with a failure status in the parse phase: no insert is issued for any table
\* of the batch.
C24_NoDefaultAborts ==
    (prog = "write_records" /\ pc # "parse" /\ LacksNoDefaultColumn) =>
        /\ pc = "exited"
        /\ exit \in {EXIT_FATAL, EXIT_TRACEBACK}
        /\ res.executes = 0
        /\ res.inserted = <<>>


-----------------------------------------------------------------------------
(* Properties of the line counts of dump and restore *)

\* The length of the longest of the strings rows.
MaxRowLen(rows) ==
    IF rows = <<>> THEN 0
    ELSE CHOOSE n \in {Len(rows[i]) : i \in DOMAIN rows} :
            \A i \in DOMAIN rows : Len(rows[i]) <= n

\* The number of lines of a text written as the strings rows: its newlines.
LinesWritten(rows) ==
    Cardinality({<<i, j>> \in (DOMAIN rows) \X (1..MaxRowLen(rows)) :
                    j <= Len(rows[i]) /\ rows[i][j] = "\n"})

RECURSIVE RowsOfPages(_, _, _)
\* What format_rows gives for the first n pages read for entity m, page after page.
RowsOfPages(m, ps, n) ==
    IF n = 0 THEN <<>>
    ELSE RowsOfPages(m, ps, n - 1) \o format_rows(m, msfields[m], ps[n]).rows

\* restore is where it prints the count of the entity (line 311).
RestorePrints ==
    /\ prog = "restore"
    /\ \/ pc = "read" /\ fpos = Len(CurFile) /\ lines = <<>>
       \/ pc = "close"

\* C25: the line counts are exact.  dump: while an entity is streamed its file
\* holds the lines of every page read so far, and line_count - which is printed
\* when the stream ends - is the number of lines of the file.  restore: all
\* through the loop line_count + len(lines) is the number of lines read, between
\* two turns line_count is the number of lines handed to write_points for the
\* entity, and the count printed is the number of lines of the file.
C25_CountsExact ==
    /\ (prog = "dump" /\ pc = "stream") =>
          LET m == measurements[mi]
          IN  /\ disk.files[FileOf(m)] = RowsOfPages(m, pages, Len(pages))
              /\ line_count = LinesWritten(disk.files[FileOf(m)])
    /\ (prog = "restore" /\ pc \in {"read", "write_points", "close"}) =>
          line_count + Len(lines) = fpos
    /\ (prog = "restore" /\ pc = "read") =>
          line_count = Len(ConcatLines(WritesOf(measurements[mi])))
    /\ RestorePrints => line_count + Len(lines) = Len(CurFile)

\* dump has read two pages of its second entity, three lines in all.
C25_Witness ==
    /\ prog = "dump" /\ pc = "stream" /\ mi = 2 /\ Len(pages) = 2
    /\ line_count = 3

=============================================================================
